---- MODULE Spec2Model ----
(***************************************************************************)
(* FIFO inventory costing and offline sales reconciliation of the POS      *)
(* client: the remote batch ledger (product_batches, products.stock), the  *)
(* consumption engine of lib/db.ts, the local durable queue of             *)
(* lib/offlineDB.ts, the synchronization driver of lib/sync.ts and the     *)
(* checkout handler of components/CartSidebar.tsx.                         *)
(*                                                                         *)
(* A remote call (a supabase query) has three outcomes: it succeeds, it    *)
(* returns an error object, or the awaited promise rejects.  A handler     *)
(* execution takes a fault [at, kind]: its at-th remote call fails in the   *)
(* given way (at = 0: none fails).  A failed write is not applied.         *)
(***************************************************************************)
EXTENDS Integers, Sequences, FiniteSets, TLC

VARIABLES
  product_batches,    \* remote table product_batches: a set of rows
  products,           \* remote table products: product id -> [price, stock]
  sales,              \* remote table sales: sequence of rows, id = position
  sale_items,         \* remote table sale_items: set of rows
  queued_sales,       \* IndexedDB store queued_sales: set of rows
  queued_sale_items,  \* IndexedDB store queued_sale_items: set of rows
  cartItems,          \* useCart state: product id -> quantity (0 = not in cart)
  fifoUnitPrices,     \* CartSidebar state: product id -> quoted line revenue (0 = none)
  online,             \* navigator.onLine
  sync,               \* the running syncQueuedSales call, if any
  last,               \* history: what the last handler execution did
  hist,               \* history: per queue entry, consumptions and remote rows
  faults,             \* history: handler steps that met failing remote calls
  clock,              \* Date.now()
  runs,               \* handler executions that overlap, each at an awaited call
  pendingSync         \* the 'Pending sync' figure of the Admin page

vars == <<product_batches, products, sales, sale_items, queued_sales,
          queued_sale_items, cartItems, fifoUnitPrices, online, sync, last, hist,
          faults, clock, runs, pendingSync>>

ledgerVars == <<product_batches, products>>
remoteSaleVars == <<sales, sale_items>>
queueVars == <<queued_sales, queued_sale_items>>
cartVars == <<cartItems, fifoUnitPrices>>

----------------------------------------------------------------------------
(* Bounds *)

MaxQty == 2          \* largest quantity of a cart line or of a restock
MaxCheckouts == 1    \* checkouts accepted: queue entries ever made plus direct sales
MaxFaults == 1       \* handler steps in which remote calls fail

Products == {"p1", "p2"}
BatchIds == {1, 2, 3}

\* null / undefined
Null == 0 - 1
NoError == "none"
TransportError == "transport"
Outcomes == {"ok", "error", "throw"}

Min(a, b) == IF a < b THEN a ELSE b

RECURSIVE SumF(_, _)
SumF(f, S) ==
  IF S = {} THEN 0
  ELSE LET x == CHOOSE y \in S : TRUE IN f[x] + SumF(f, S \ {x})

\* sum of remaining_quantity over a set of batch rows
SumRemaining(rows) == SumF([b \in rows |-> b.remaining_quantity], rows)

----------------------------------------------------------------------------
(* Remote calls and faults *)

NoFault == [at |-> 0, kind |-> "error"]
Faults(n) == {NoFault} \cup {[at |-> k, kind |-> kd] : k \in 1..n, kd \in {"error", "throw"}}

\* outcome of the remote call number c under fault f
CallOutcome(c, f) == IF f.at = c THEN f.kind ELSE "ok"

----------------------------------------------------------------------------
(* Batch ledger, lib/db.ts *)

BatchesOf(tbl, pid) == {b \in tbl : b.product_id = pid}

\* .order('created_at').order('id'): is a before b
OrderKey(a, b) ==
  \/ a.created_at < b.created_at
  \/ a.created_at = b.created_at /\ a.id < b.id

RECURSIVE OrderRows(_)
OrderRows(S) ==
  IF S = {} THEN <<>>
  ELSE LET m == CHOOSE x \in S : \A y \in S \ {x} : OrderKey(x, y)
       IN <<m>> \o OrderRows(S \ {m})

\* .eq('product_id', pid).gt('remaining_quantity', 0) in FIFO order
SelectOpenBatchesMutDesc(tbl, pid) ==
  LET s == OrderRows({b \in BatchesOf(tbl, pid) : b.remaining_quantity > 0})
  IN [i \in 1..Len(s) |-> s[Len(s) + 1 - i]]
SelectOpenBatches(tbl, pid) ==
  OrderRows({b \in BatchesOf(tbl, pid) : b.remaining_quantity > 0})

\* .update({ remaining_quantity }).eq('id', id)
UpdateRemainingMutDelta(tbl, id, rq) ==
  {IF b.id = id THEN [b EXCEPT !.remaining_quantity = rq - (b.quantity - @)] ELSE b :
     b \in tbl}
UpdateRemainingMutSkip(tbl, id, rq) == tbl
UpdateRemaining(tbl, id, rq) ==
  {IF b.id = id THEN [b EXCEPT !.remaining_quantity = rq] ELSE b : b \in tbl}

\* deleteEmptyBatches: .delete().eq('product_id', pid).eq('remaining_quantity', 0)
deleteEmptyBatches(tbl, pid) ==
  {b \in tbl : ~(b.product_id = pid /\ b.remaining_quantity = 0)}

\* deleteProductBatch: .delete().eq('id', id)
deleteProductBatch(tbl, id) == {b \in tbl : b.id # id}

\* getProductStock: the sum of remaining_quantity over all batches of the product
getProductStock(tbl, pid) == SumRemaining(BatchesOf(tbl, pid))

\* createProductBatch line 199: remaining_quantity: input.remaining_quantity ?? input.quantity
InsertedRemainingMutZero(given, quantity) == 0
InsertedRemaining(given, quantity) == IF given = Null THEN quantity ELSE given

\* createProductBatch: the inserted row; id and created_at are the store's
createProductBatch(id, pid, bp, sp, qty, rq, ts) ==
  [id |-> id, product_id |-> pid, bought_price |-> bp, selling_price |-> sp,
   quantity |-> qty, remaining_quantity |-> rq, created_at |-> ts]

\* latest created_at in the table (0 when empty): the store's clock is not behind it
LatestCreated(tbl) ==
  IF tbl = {} THEN 0
  ELSE LET m == CHOOSE x \in tbl : \A y \in tbl : y.created_at <= x.created_at
       IN m.created_at

FreeIds(tbl) == BatchIds \ {b.id : b \in tbl}

----------------------------------------------------------------------------
(* FIFO consumption engine, lib/db.ts *)

\* mutant: the loop takes the whole outstanding quantity from the first batch
FifoWalkMutOverdraw(bs, remaining, acc) ==
  IF bs = <<>> \/ remaining <= 0
  THEN [acc EXCEPT !.remaining = remaining]
  ELSE [updates |-> Append(acc.updates,
                           [id |-> Head(bs).id,
                            remaining_quantity |-> Head(bs).remaining_quantity - remaining]),
        cogs |-> acc.cogs + remaining * Head(bs).bought_price,
        revenue |-> acc.revenue + remaining * Head(bs).selling_price,
        remaining |-> 0]

\* the loop of consumeBatchesFIFO over the ordered open batches (lines 97-109)
RECURSIVE FifoWalk(_, _, _)
FifoWalk(bs, remaining, acc) ==
  IF bs = <<>> \/ remaining <= 0
  THEN [acc EXCEPT !.remaining = remaining]
  ELSE LET b == Head(bs)
           take == Min(b.remaining_quantity, remaining)
       IN FifoWalk(Tail(bs), remaining - take,
                   [updates |-> Append(acc.updates,
                                       [id |-> b.id,
                                        remaining_quantity |-> b.remaining_quantity - take]),
                    cogs |-> acc.cogs + take * b.bought_price,
                    revenue |-> acc.revenue + take * b.selling_price,
                    remaining |-> remaining - take])

EmptyWalk == [updates |-> <<>>, cogs |-> 0, revenue |-> 0, remaining |-> 0]

\* line 110: the batches ran out before the requested quantity was met
ShortfallMutNever(w) == FALSE
Shortfall(w) == w.remaining > 0

\* the update loop of consumeBatchesFIFO (lines 114-120); c counts the remote calls made
RECURSIVE ApplyUpdates(_, _, _, _)
ApplyUpdates(tbl, us, c, f) ==
  IF us = <<>> THEN [tbl |-> tbl, calls |-> c, status |-> "ok"]
  ELSE LET o == CallOutcome(c + 1, f)
       IN IF o # "ok" THEN [tbl |-> tbl, calls |-> c + 1, status |-> o]
          ELSE ApplyUpdates(UpdateRemaining(tbl, Head(us).id, Head(us).remaining_quantity),
                            Tail(us), c + 1, f)

\* lines 110-112: the return when the batches ran out, after c remote calls: the
\* partial totals and the error; no update has been sent
ShortfallResultMutPersist(tbl, w, quantity, c, f) ==
  [tbl |-> ApplyUpdates(tbl, w.updates, c, NoFault).tbl, consumed |-> quantity - w.remaining,
   cogs |-> w.cogs, revenue |-> w.revenue, error |-> "Insufficient batch stock",
   thrown |-> FALSE, calls |-> c]
ShortfallResult(tbl, w, quantity, c, f) ==
  [tbl |-> tbl, consumed |-> quantity - w.remaining, cogs |-> w.cogs,
   revenue |-> w.revenue, error |-> "Insufficient batch stock",
   thrown |-> FALSE, calls |-> c]

\* consumeBatchesFIFO(productId, quantity) started after c remote calls, under fault f
consumeBatchesFIFO(tbl, pid, quantity, c, f) ==
  IF quantity <= 0
  THEN [tbl |-> tbl, consumed |-> 0, cogs |-> 0, revenue |-> 0, error |-> NoError,
        thrown |-> FALSE, calls |-> c]
  ELSE
  LET rd == CallOutcome(c + 1, f)
      w == FifoWalk(SelectOpenBatches(tbl, pid), quantity, EmptyWalk)
      ap == ApplyUpdates(tbl, w.updates, c + 1, f)
  IN IF rd = "throw"
     THEN [tbl |-> tbl, consumed |-> 0, cogs |-> 0, revenue |-> 0, error |-> NoError,
           thrown |-> TRUE, calls |-> c + 1]
     ELSE IF rd = "error"
     THEN [tbl |-> tbl, consumed |-> 0, cogs |-> 0, revenue |-> 0, error |-> TransportError,
           thrown |-> FALSE, calls |-> c + 1]
     ELSE IF Shortfall(w)
     THEN ShortfallResult(tbl, w, quantity, c + 1, f)
     ELSE IF ap.status = "throw"
     THEN [tbl |-> ap.tbl, consumed |-> 0, cogs |-> 0, revenue |-> 0, error |-> NoError,
           thrown |-> TRUE, calls |-> ap.calls]
     ELSE IF ap.status = "error"
     THEN [tbl |-> ap.tbl, consumed |-> quantity - w.remaining, cogs |-> w.cogs,
           revenue |-> w.revenue, error |-> TransportError,
           thrown |-> FALSE, calls |-> ap.calls]
     ELSE [tbl |-> ap.tbl, consumed |-> quantity, cogs |-> w.cogs, revenue |-> w.revenue,
           error |-> NoError, thrown |-> FALSE, calls |-> ap.calls]

\* updateProductStockDelta(productId, delta): read products.stock, write stock + delta
updateProductStockDeltaMutNoWrite(prods, pid, delta, c, f) ==
  [prods |-> prods, status |-> CallOutcome(c + 1, f), calls |-> c + 2]
updateProductStockDeltaMutTwice(prods, pid, delta, c, f) ==
  [prods |-> [prods EXCEPT ![pid].stock = @ + delta + delta],
   status |-> IF CallOutcome(c + 1, f) # "ok" THEN CallOutcome(c + 1, f)
              ELSE CallOutcome(c + 2, f),
   calls |-> IF CallOutcome(c + 1, f) # "ok" THEN c + 1 ELSE c + 2]
updateProductStockDelta(prods, pid, delta, c, f) ==
  LET sel == CallOutcome(c + 1, f)
      upd == CallOutcome(c + 2, f)
  IN IF sel # "ok" THEN [prods |-> prods, status |-> sel, calls |-> c + 1]
     ELSE IF upd # "ok" THEN [prods |-> prods, status |-> upd, calls |-> c + 2]
     ELSE [prods |-> [prods EXCEPT ![pid].stock = @ + delta], status |-> "ok",
           calls |-> c + 2]

\* the validation loop of processSaleBatches (lines 132-136), from item i on
ValidateItemsMutPass(tbl, items, i, f) ==
  [error |-> NoError, thrown |-> FALSE, calls |-> Len(items)]
RECURSIVE ValidateItems(_, _, _, _)
ValidateItems(tbl, items, i, f) ==
  IF i > Len(items) THEN [error |-> NoError, thrown |-> FALSE, calls |-> i - 1]
  ELSE LET o == CallOutcome(i, f)
       IN IF o = "throw" THEN [error |-> NoError, thrown |-> TRUE, calls |-> i]
          ELSE IF o = "error" THEN [error |-> TransportError, thrown |-> FALSE, calls |-> i]
          ELSE IF getProductStock(tbl, items[i].productId) < items[i].quantity
          THEN [error |-> "Insufficient stock for one or more items", thrown |-> FALSE,
                calls |-> i]
          ELSE ValidateItems(tbl, items, i + 1, f)

\* line 143: the return when consumeBatchesFIFO failed: the totals of the items
\* before it, and its error
ConsumeFailedMutZero(st, r) ==
  [st EXCEPT !.tbl = r.tbl, !.calls = r.calls, !.stage = "consume", !.cogs = 0,
             !.revenue = 0,
             !.error = IF r.error # NoError THEN r.error ELSE "Failed to consume batches"]
ConsumeFailed(st, r) ==
  [st EXCEPT !.tbl = r.tbl, !.calls = r.calls, !.stage = "consume",
             !.error = IF r.error # NoError THEN r.error ELSE "Failed to consume batches"]

\* the consume loop of processSaleBatches (lines 141-151), from item i on;
\* st carries the tables, the totals and the count of remote calls; pf is the
\* set of item positions whose best-effort deleteEmptyBatches fails; prunes counts
\* the deleteEmptyBatches calls made; stage is history: where the run ended
RECURSIVE ConsumeItems(_, _, _, _, _)
ConsumeItems(st, items, i, f, pf) ==
  IF i > Len(items) THEN st
  ELSE
  LET it == items[i]
      r == consumeBatchesFIFO(st.tbl, it.productId, it.quantity, st.calls, f)
      u == updateProductStockDelta(st.prods, it.productId, 0 - it.quantity, r.calls, f)
      cogs2 == st.cogs + r.cogs
      rev2 == st.revenue + r.revenue
  IN IF r.thrown
     THEN [st EXCEPT !.tbl = r.tbl, !.thrown = TRUE, !.calls = r.calls,
                     !.stage = "consume"]
     ELSE IF r.error # NoError \/ r.consumed # it.quantity
     THEN ConsumeFailed(st, r)
     ELSE IF u.status = "throw"
     THEN [st EXCEPT !.tbl = r.tbl, !.thrown = TRUE, !.calls = u.calls, !.stage = "stock",
                     !.cogs = cogs2, !.revenue = rev2, !.consumedItems = @ + 1]
     ELSE IF u.status = "error"
     THEN [st EXCEPT !.tbl = r.tbl, !.calls = u.calls, !.error = TransportError,
                     !.stage = "stock",
                     !.cogs = cogs2, !.revenue = rev2, !.consumedItems = @ + 1]
     ELSE ConsumeItems(
            [tbl |-> IF i \in pf THEN r.tbl ELSE deleteEmptyBatches(r.tbl, it.productId),
             prods |-> u.prods, cogs |-> cogs2, revenue |-> rev2,
             details |-> Append(st.details,
                                [productId |-> it.productId, quantity |-> it.quantity,
                                 cogs |-> r.cogs, revenue |-> r.revenue]),
             error |-> NoError, thrown |-> FALSE, calls |-> u.calls,
             consumedItems |-> st.consumedItems + 1, prunes |-> st.prunes + 1,
             stage |-> "done"],
            items, i + 1, f, pf)

\* processSaleBatches(items) on the tables tbl, prods
processSaleBatches(tbl, prods, items, f, pf) ==
  LET v == ValidateItems(tbl, items, 1, f)
      st0 == [tbl |-> tbl, prods |-> prods, cogs |-> 0, revenue |-> 0, details |-> <<>>,
              error |-> v.error, thrown |-> v.thrown, calls |-> v.calls,
              consumedItems |-> 0, prunes |-> 0,
              stage |-> IF v.thrown \/ v.error # NoError THEN "validate" ELSE "done"]
  IN IF v.thrown \/ v.error # NoError THEN st0
     ELSE ConsumeItems(st0, items, 1, f, pf)

\* the faults a processSaleBatches(items) run can meet: one per remote call it makes
FifoFaults(tbl, prods, items) ==
  Faults(processSaleBatches(tbl, prods, items, NoFault, {}).calls)

\* 1 when remote calls fail in a run under fault f and prune failures pf
FaultCost(f, pf) == IF f.at # 0 \/ pf # {} THEN 1 ELSE 0

\* quoteSaleBatches(items): the read-only FIFO walk, revenue only
RECURSIVE quoteSaleBatches(_, _)
quoteSaleBatches(tbl, items) ==
  IF items = <<>> THEN 0
  ELSE LET it == Head(items)
           w == FifoWalk(SelectOpenBatches(tbl, it.productId), it.quantity, EmptyWalk)
       IN (IF it.quantity <= 0 THEN 0 ELSE w.revenue) + quoteSaleBatches(tbl, Tail(items))

\* addStockBatch: insert the batch, then read and write products.stock
addStockBatch(tbl, prods, row, f) ==
  LET ins == CallOutcome(1, f)
      sel == CallOutcome(2, f)
      upd == CallOutcome(3, f)
  IN IF ins # "ok" THEN [tbl |-> tbl, prods |-> prods, status |-> ins]
     ELSE IF sel # "ok" THEN [tbl |-> tbl \cup {row}, prods |-> prods, status |-> sel]
     ELSE IF upd # "ok" THEN [tbl |-> tbl \cup {row}, prods |-> prods, status |-> upd]
     ELSE [tbl |-> tbl \cup {row},
           prods |-> [prods EXCEPT ![row.product_id].stock = @ + row.quantity],
           status |-> "ok"]

----------------------------------------------------------------------------
(* Initial values shared by the specifications *)

ProductPrice == [p \in Products |-> IF p = "p1" THEN 15 ELSE 12]

\* products rows whose stock is the sum of the batches, as the catalog is set up
ProductsFor(tbl) ==
  [p \in Products |-> [price |-> ProductPrice[p], stock |-> getProductStock(tbl, p)]]

\* tried is history: the ids the call has set syncing, in order
SyncIdle ==
  [pc |-> "idle", rows |-> <<>>, cur |-> 0, targetId |-> 0, cogs |-> 0, details |-> <<>>,
   tried |-> <<>>]

\* the handler executions that may be awaiting a remote call at the same time
Runs == {1, 2}
\* batches is history: id and remaining_quantity of the rows the consume read;
\* planned is history: the updates the walk computed from them
IdleRun == [pc |-> "idle", kind |-> "none", productId |-> "none", quantity |-> 0,
            updates |-> <<>>, stock |-> 0, batches |-> <<>>, planned |-> <<>>]
\* made counts the batch rows inserted since Init: ids are not used again;
\* other is a second syncQueuedSales call of the client, awaiting while the
\* call in sync takes its steps
NoRuns == [of |-> [p \in Runs |-> IdleRun], made |-> 0, other |-> SyncIdle]

\* no sale yet, an empty cart, no sync call running
InitLocal ==
  /\ runs = NoRuns
  /\ pendingSync = 0
  /\ sales = <<>>
  /\ sale_items = {}
  /\ cartItems = [p \in Products |-> 0]
  /\ fifoUnitPrices = [p \in Products |-> 0]
  /\ online = TRUE
  /\ sync = SyncIdle
  /\ last = [op |-> "init"]
  /\ faults = 0

InitRest ==
  /\ InitLocal
  /\ queued_sales = {}
  /\ queued_sale_items = {}
  /\ hist = <<>>
  /\ clock = 1

----------------------------------------------------------------------------
(* SpecFifo: the consumption engine alone, started on ledgers of every shape *)

\* the ledger of the FIFO ordering example: lots of 5 at cost 10, then 5 at cost 20
ExampleLedger ==
  {createProductBatch(1, "p1", 10, 12, 5, 5, 1),
   createProductBatch(2, "p1", 20, 25, 5, 5, 2)}

Clock == {1, 2}
\* created_at values stay within 0..MaxClock
MaxClock == Cardinality(BatchIds) + 1
LotPrice == <<(<<10, 12>>), (<<20, 25>>), (<<5, 15>>)>>
NoRow == [pid |-> "none"]

\* what a batch id can hold: nothing, a lot of p2, or a lot of p1 at any stage of
\* its consumption (0 <= remaining_quantity <= quantity)
SlotChoices ==
  {NoRow, [pid |-> "p2", qty |-> 1, rq |-> 1, ts |-> 1]}
    \cup {[pid |-> "p1", qty |-> q, rq |-> r, ts |-> t] :
            q \in 1..MaxQty, r \in 0..MaxQty, t \in Clock}

LedgerOf(g) ==
  {createProductBatch(i, g[i].pid, LotPrice[i][1], LotPrice[i][2], g[i].qty, g[i].rq, g[i].ts) :
     i \in {j \in BatchIds : g[j] # NoRow}}

InitFifo ==
  /\ \/ product_batches = ExampleLedger
     \/ \E g \in [BatchIds -> {c \in SlotChoices : c = NoRow \/ c.rq <= c.qty}] :
          product_batches = LedgerOf(g)
  /\ products = ProductsFor(product_batches)
  /\ InitRest

\* one call of consumeBatchesFIFO(pid, req), any fault, on the ledger Init drew
\* (every ledger is an initial state, so one call per run covers them all)
FifoConsume ==
  \E pid \in Products :
    /\ last.op = "init"
    /\ \E req \in 1..getProductStock(product_batches, pid) + 1 :
      \E f \in Faults(consumeBatchesFIFO(product_batches, pid, req, 0, NoFault).calls) :
         LET r == consumeBatchesFIFO(product_batches, pid, req, 0, f)
         IN /\ product_batches' = r.tbl
            /\ last' = [op |-> "consume", pid |-> pid, quantity |-> req,
                        open |-> getProductStock(product_batches, pid),
                        consumed |-> r.consumed, cogs |-> r.cogs, revenue |-> r.revenue,
                        error |-> r.error, thrown |-> r.thrown, readOk |-> f.at # 1]
            /\ UNCHANGED <<products, sales, sale_items, queued_sales, queued_sale_items,
                           cartItems, fifoUnitPrices, online, sync, hist, faults, clock, runs, pendingSync>>

NextFifo == FifoConsume

SpecFifo == InitFifo /\ [][NextFifo]_vars

----------------------------------------------------------------------------
(* Properties of the consumption engine, under SpecFifo *)

\* a is consumed before b: ascending created_at, ties broken by ascending id
Older(a, b) ==
  a.created_at < b.created_at \/ (a.created_at = b.created_at /\ a.id < b.id)

RowById(tbl, id) == CHOOSE b \in tbl : b.id = id

\* what a consume took from the batch b of the ledger pre
TakenFrom(post, b) == b.remaining_quantity - RowById(post, b.id).remaining_quantity

FifoPost(pre, post, l) ==
  LET open == {b \in pre : b.product_id = l.pid /\ b.remaining_quantity > 0}
  IN /\ {b.id : b \in post} = {b.id : b \in pre}
     /\ \A b \in pre \ open : b \in post
     /\ \A b \in open :
          RowById(post, b.id) =
            [b EXCEPT !.remaining_quantity = RowById(post, b.id).remaining_quantity]
     /\ \E t \in open :
          /\ RowById(post, t.id).remaining_quantity < t.remaining_quantity
          /\ \A b \in open : Older(b, t) => RowById(post, b.id).remaining_quantity = 0
          /\ \A b \in open : Older(t, b) => b \in post
     /\ SumF([b \in open |-> TakenFrom(post, b)], open) = l.quantity
     /\ l.consumed = l.quantity
     /\ l.cogs = SumF([b \in open |-> TakenFrom(post, b) * b.bought_price], open)
     /\ l.revenue = SumF([b \in open |-> TakenFrom(post, b) * b.selling_price], open)

\* C2: a successful consumeBatchesFIFO(p, Q) drains the open batches of p in
\* ascending (created_at, id) order: every batch older than the last touched one
\* ends at 0, only the last touched one may stay partially drained, newer batches
\* and other products are unchanged, the total taken is Q, cogs is the sum of
\* take * bought_price and revenue the sum of take * selling_price.
C2_FifoConsumption ==
  [][(last'.op = "consume" /\ last'.error = NoError /\ ~last'.thrown)
       => FifoPost(product_batches, product_batches', last')]_vars

\* the example of the claim: lots (5 at cost 10), (5 at cost 20), Q = 7
C2_Witness ==
  /\ last.op = "consume" /\ last.error = NoError /\ ~last.thrown
  /\ last.quantity = 7 /\ last.cogs = 90
  /\ RowById(product_batches, 1).remaining_quantity = 0
  /\ RowById(product_batches, 2).remaining_quantity = 3
  /\ RowById(product_batches, 1).bought_price = 10
  /\ RowById(product_batches, 2).bought_price = 20

\* C3: consumeBatchesFIFO of more than the product's total open remaining
\* quantity never reports success: when it returns, the error is non-null and
\* the consumed quantity is less than the requested one, and when the batch
\* read succeeded the error is the insufficient-stock error.
C3_InsufficientStock ==
  (last.op = "consume" /\ last.quantity > last.open)
    => /\ ~last.thrown => (last.error # NoError /\ last.consumed < last.quantity)
       /\ last.readOk => (~last.thrown /\ last.error = "Insufficient batch stock")

C3_Witness ==
  /\ last.op = "consume" /\ last.open > 0 /\ last.quantity > last.open
  /\ last.error = "Insufficient batch stock" /\ last.consumed = last.open

\* the batch read succeeded and the open batches do not hold the request
RanOut(l) == l.op = "consume" /\ l.readOk /\ l.quantity > l.open

\* C19, as stated: when consumeBatchesFIFO runs out of open batches before the
\* requested quantity is met, the decrements of the batches it walked are
\* persisted: the batch sum of the product is lowered by the consumed quantity.
C19_AsStated ==
  [][RanOut(last') =>
       getProductStock(product_batches', last'.pid)
         = getProductStock(product_batches, last'.pid) - last'.consumed]_vars

\* C19, amended: when consumeBatchesFIFO runs out of open batches before the
\* requested quantity is met it returns the 'Insufficient batch stock' error with
\* the consumed quantity, cogs and revenue of the batches it walked (all the open
\* ones) and sends no update: every batch keeps its remaining_quantity.
C19_ShortfallWritesNothing ==
  [][RanOut(last') =>
       /\ product_batches' = product_batches
       /\ last'.error = "Insufficient batch stock" /\ ~last'.thrown
       /\ last'.consumed = last'.open
       /\ LET open == {b \in BatchesOf(product_batches, last'.pid) : b.remaining_quantity > 0}
          IN /\ last'.cogs = SumF([b \in open |-> b.remaining_quantity * b.bought_price], open)
             /\ last'.revenue
                  = SumF([b \in open |-> b.remaining_quantity * b.selling_price], open)]_vars

\* a request above the two open lots of the example ledger: 10 walked, none written
C19_Witness ==
  /\ RanOut(last) /\ last.consumed = 10 /\ last.quantity = 11
  /\ last.cogs = 150
  /\ product_batches = ExampleLedger

----------------------------------------------------------------------------
(* Local durable queue, lib/offlineDB.ts *)

\* QueuedSaleStatus
Statuses == {"queued", "syncing", "failed", "done"}

\* saveQueuedSale: the queued_sales row (status defaults to 'queued', error null)
\* status_updated_at is new Date().toISOString(), read back with Date.parse:
\* the same count of milliseconds
QueuedSaleRow(id, total, pay, change, count, now) ==
  [id |-> id, total |-> total, payment_method |-> pay.method,
   cash_received |-> pay.cash, change |-> change, items_count |-> count,
   status |-> "queued", error |-> NoError, status_updated_at |-> now]

\* setSaleStatus(id, status, error): get, return if absent, put the changed row
setSaleStatusMutDone(qs, id, status, error, now) ==
  {IF s.id = id
   THEN [s EXCEPT !.status = "done", !.error = error, !.status_updated_at = now]
   ELSE s : s \in qs}
setSaleStatus(qs, id, status, error, now) ==
  {IF s.id = id
   THEN [s EXCEPT !.status = status, !.error = error, !.status_updated_at = now]
   ELSE s : s \in qs}

\* setSaleStatus lines 193-198: the readwrite transaction that puts the row
\* under its key, whether or not the store holds the key
putQueuedSale(qs, row) == {s \in qs : s.id # row.id} \cup {row}

\* resetStaleSyncing(thresholdMs) at time now: the cursor over the rows of status
\* syncing; a row without a parsable status_updated_at (0) counts as stale
Stale(s, thresholdMs, now) ==
  s.status_updated_at = 0 \/ now - s.status_updated_at > thresholdMs
resetStaleSyncingMutAll(qs, thresholdMs, now) ==
  {IF s.status = "syncing"
   THEN [s EXCEPT !.status = "queued", !.status_updated_at = now,
                  !.error = IF @ # NoError THEN @ ELSE "Reset stale syncing"]
   ELSE s : s \in qs}
resetStaleSyncing(qs, thresholdMs, now) ==
  {IF s.status = "syncing" /\ Stale(s, thresholdMs, now)
   THEN [s EXCEPT !.status = "queued", !.status_updated_at = now,
                  !.error = IF @ # NoError THEN @ ELSE "Reset stale syncing"]
   ELSE s : s \in qs}

\* deleteQueuedSale(id): delete the sale and, by the sale_id index, its items
deleteQueuedSaleRowMutClear(qs, id) ==
  IF \E s \in qs : s.id = id THEN {s \in qs : s.id # id} ELSE {}
deleteQueuedSaleRow(qs, id) == {s \in qs : s.id # id}
deleteQueuedSaleItemsMutKeep(qi, id) == qi
deleteQueuedSaleItemsMutFirst(qi, id) ==
  {i \in qi : i.sale_id # id \/ i.product_id # "p1"}
deleteQueuedSaleItems(qi, id) == {i \in qi : i.sale_id # id}

\* getQueuedCount: the cursor over the rows of status queued, then the cursor over
\* the rows of status syncing, in one transaction
CountStatus(qs, status) == Cardinality({s \in qs : s.status = status})
getQueuedCount(qs) == CountStatus(qs, "queued") + CountStatus(qs, "syncing")

\* store.get(id) finds a row; the row it finds
InQueueNow(id) == \E s \in queued_sales : s.id = id
getQueuedSale(id) == CHOOSE s \in queued_sales : s.id = id

\* the items of a sale, by the sale_id index
ItemsOf(qi, id) == {i \in qi : i.sale_id = id}

\* listQueuedSales: every sale with the items whose sale_id is its id, by key
RECURSIVE ListRows(_, _)
ListRows(qs, qi) ==
  IF qs = {} THEN <<>>
  ELSE LET s == CHOOSE x \in qs : \A y \in qs : x.id <= y.id
       IN <<[sale |-> s, items |-> {i \in qi : i.sale_id = s.id}]>>
            \o ListRows(qs \ {s}, qi)
listQueuedSales(qs, qi) == ListRows(qs, qi)

----------------------------------------------------------------------------
(* Cart and checkout, components/CartSidebar.tsx, hooks/useCart.ts *)

ProdOrder == <<"p1", "p2">>
InCart(cart) == {p \in Products : cart[p] > 0}

\* cartItems.map(ci => ({ productId, quantity })) in cart order
RECURSIVE CartSeqFrom(_, _)
CartSeqFrom(cart, i) ==
  IF i > Len(ProdOrder) THEN <<>>
  ELSE (IF cart[ProdOrder[i]] > 0
        THEN <<[productId |-> ProdOrder[i], quantity |-> cart[ProdOrder[i]]]>>
        ELSE <<>>) \o CartSeqFrom(cart, i + 1)
CartSeq(cart) == CartSeqFrom(cart, 1)

\* a price that need not be whole: the fraction num / den in lowest terms
RECURSIVE Gcd(_, _)
Gcd(a, b) == IF b = 0 THEN a ELSE Gcd(b, a % b)
Ratio(n, d) == [num |-> n \div Gcd(n, d), den |-> d \div Gcd(n, d)]
\* unit * quantity; the products formed here are whole
Times(unit, quantity) == (unit.num * quantity) \div unit.den

\* unit = fifoUnitPrices[id] ?? product.price (lines 83, 120); the quoted unit is
\* revenue / quantity (line 48), fifoUnitPrices keeps the quoted revenue of the
\* line and 0 where the effect stored no unit
UnitPriceMutNominal(cart, fifo, p) == Ratio(ProductPrice[p], 1)
UnitPrice(cart, fifo, p) ==
  IF fifo[p] > 0 THEN Ratio(fifo[p], cart[p]) ELSE Ratio(ProductPrice[p], 1)
\* unit * ci.quantity
LineTotal(cart, fifo, p) == Times(UnitPrice(cart, fifo, p), cart[p])
SubtotalNow(cart, fifo) == SumF([p \in Products |-> LineTotal(cart, fifo, p)], InCart(cart))
ItemsCount(cart) == SumF([p \in Products |-> cart[p]], InCart(cart))

\* prices and totals are counted in cents; the cash field is read by parseFloat
\* (line 94) and may carry a third decimal: cash is counted in tenths of a cent
Cents(c) == c * 10
\* +(x).toFixed(2) of an amount of tenths of a cent, in cents
ToFixed2(x) == (x + 5) \div 10

\* the payment inputs tried: digital, and cash around the total
Payments(total) ==
  {[method |-> "digital", cash |-> Null]}
    \cup {[method |-> "cash", cash |-> c] :
            c \in {0, Cents(total - 1), Cents(total + 1) + 4}}
NoPayment == [method |-> "none", cash |-> Null]

\* the cash guard of handleCheckout (lines 93-102)
CashGuardMutNone(pay, total) == TRUE
CashGuard(pay, total) ==
  pay.method = "cash" => (pay.cash > 0 /\ pay.cash >= Cents(total))
\* line 103: change = +(cashNum - finalTotal).toFixed(2)
Change(pay, total) ==
  IF pay.method = "cash" THEN ToFixed2(pay.cash - Cents(total)) ELSE Null

\* itemsToQueue (lines 119-129, 154-157, 181-184)
ItemsToQueue(id, cart, fifo) ==
  {[sale_id |-> id, product_id |-> p, unit_price |-> UnitPrice(cart, fifo, p),
    quantity |-> cart[p], line_total |-> LineTotal(cart, fifo, p)] : p \in InCart(cart)}

\* the insert payload of the sales row (line 168); qid is history, not data
SaleRowMutNoCogs(total, pay, change, cogs, count, qid) ==
  [total |-> total, payment_method |-> pay.method, cash_received |-> pay.cash,
   change |-> change, cogs |-> 0, items_count |-> count, qid |-> qid]
SaleRow(total, pay, change, cogs, count, qid) ==
  [total |-> total, payment_method |-> pay.method, cash_received |-> pay.cash,
   change |-> change, cogs |-> cogs, items_count |-> count, qid |-> qid]

\* details.find(d => d.productId === id)?.cogs ?? 0
RECURSIVE LineCogs(_, _)
LineCogs(details, p) ==
  IF details = <<>> THEN 0
  ELSE IF Head(details).productId = p THEN Head(details).cogs
  ELSE LineCogs(Tail(details), p)

\* the sale_items rows of a checkout (lines 195-210)
CartSaleItems(saleId, cart, fifo, details) ==
  {[sale_id |-> saleId, product_id |-> p, unit_price |-> UnitPrice(cart, fifo, p),
    quantity |-> cart[p], line_total |-> LineTotal(cart, fifo, p),
    line_cogs |-> LineCogs(details, p)] :
     p \in InCart(cart)}

\* the history counters saturate at HistCap: 'more than once'
HistCap == 1 + 1
NextQid == Len(hist) + 1

\* checkouts accepted so far: queue entries ever made and sales rows of checkouts
Accepted ==
  Len(hist) + Cardinality({i \in 1..Len(sales) : sales[i].qid = 0})
EmptyCart == [p \in Products |-> 0]

\* the effect of the Queued outcome: saveQueuedSale, onClearCart
Enqueue(pay, origin) ==
  LET total == SubtotalNow(cartItems, fifoUnitPrices)
  IN /\ queued_sales' = queued_sales \cup
          {QueuedSaleRow(NextQid, total, pay, Change(pay, total), ItemsCount(cartItems),
                         clock)}
     /\ queued_sale_items' = queued_sale_items
                               \cup ItemsToQueue(NextQid, cartItems, fifoUnitPrices)
     /\ hist' = Append(hist, [origin |-> origin, attempts |-> 0,
                               debits |-> IF origin = "debited" THEN 1 ELSE 0, rows |-> 0])
     /\ cartItems' = EmptyCart
     /\ fifoUnitPrices' = EmptyCart

\* some cart line asks for more than the ledger holds (history, for the properties)
Exceeds(tbl, cart) == \E p \in InCart(cart) : cart[p] > getProductStock(tbl, p)

\* history of a handleCheckout execution: its outcome, navigator.onLine at line 110
\* (online) and when a failure is handled (online2), the result of processSaleBatches
\* (fifo) and of the sales insert (insert), the rows it made
CheckoutLast(pay, outcome, on2, fifo, insert, saleId, qid) ==
  [op |-> "checkout", pay |-> pay, total |-> SubtotalNow(cartItems, fifoUnitPrices),
   outcome |-> outcome, online |-> online, online2 |-> on2,
   exceeds |-> Exceeds(product_batches, cartItems), fifo |-> fifo, insert |-> insert,
   saleId |-> saleId, qid |-> qid]

\* the carts tried: up to MaxQty of p1, with or without one p2
Carts == {c \in [Products -> 0..MaxQty] : c["p2"] <= 1}

\* addToCart / updateQuantity / removeFromCart, then the quoting effect of
\* CartSidebar (lines 40-62): one quoteSaleBatches per line, a failed or
\* non-positive quote leaves the product price as the fallback
SetCart ==
  \E cart \in Carts, quoted \in {online} :
    /\ sync.pc = "idle"
    /\ cart # cartItems
    /\ cartItems' = cart
    /\ fifoUnitPrices' =
         [p \in Products |->
            IF quoted /\ cart[p] > 0
            THEN quoteSaleBatches(product_batches, <<[productId |-> p, quantity |-> cart[p]]>>)
            ELSE 0]
    /\ last' = [op |-> "cart"]
    /\ UNCHANGED <<ledgerVars, remoteSaleVars, queueVars, online, sync, hist, faults, clock, runs, pendingSync>>

\* handleCheckout, lines 72-79: nothing to check out
CheckoutEmptyCart ==
  /\ cartItems = EmptyCart
  /\ last' = CheckoutLast(NoPayment, "empty", online, "skipped", "skipped", 0, 0)
  /\ UNCHANGED <<ledgerVars, remoteSaleVars, queueVars, cartVars, online, sync, hist, faults, clock, runs, pendingSync>>

\* lines 93-102: the cash guard stops the checkout
CheckoutCashRejected ==
  \E pay \in Payments(SubtotalNow(cartItems, fifoUnitPrices)) :
    /\ cartItems # EmptyCart
    /\ ~CashGuard(pay, SubtotalNow(cartItems, fifoUnitPrices))
    /\ last' = CheckoutLast(pay, "cashRejected", online, "skipped", "skipped", 0, 0)
    /\ UNCHANGED <<ledgerVars, remoteSaleVars, queueVars, cartVars, online, sync, hist, faults, clock, runs, pendingSync>>

\* lines 111-139 with navigator.onLine false: no consumption, the sale is queued
CheckoutOffline ==
  \E pay \in Payments(SubtotalNow(cartItems, fifoUnitPrices)) :
    /\ cartItems # EmptyCart
    /\ CashGuard(pay, SubtotalNow(cartItems, fifoUnitPrices))
    /\ ~online
    /\ Accepted < MaxCheckouts
    /\ Enqueue(pay, "offline")
    /\ last' = CheckoutLast(pay, "queued", online, "skipped", "skipped", 0, NextQid)
    /\ UNCHANGED <<ledgerVars, remoteSaleVars, online, sync, faults, clock, runs, pendingSync>>

\* lines 111-164 with navigator.onLine true and processSaleBatches returning an
\* error or throwing; on2 is navigator.onLine when the failure is handled
CheckoutFifoFailed ==
  /\ cartItems # EmptyCart
  /\ online
  /\ \E pay \in Payments(SubtotalNow(cartItems, fifoUnitPrices)),
        f \in FifoFaults(product_batches, products, CartSeq(cartItems)),
        pf \in SUBSET (1..Len(CartSeq(cartItems))), on2 \in BOOLEAN :
    /\ CashGuard(pay, SubtotalNow(cartItems, fifoUnitPrices))
    /\ faults + FaultCost(f, pf) <= MaxFaults
    /\ \E r \in {processSaleBatches(product_batches, products, CartSeq(cartItems), f, pf)} :
       LET debited == r.tbl # product_batches IN
       /\ r.thrown \/ r.error # NoError
       /\ pf \subseteq 1..r.prunes
       /\ faults' = faults + FaultCost(f, pf)
       /\ clock' = clock
       /\ runs' = runs
       /\ pendingSync' = pendingSync
       /\ product_batches' = r.tbl
       /\ products' = r.prods
       /\ online' = on2
       /\ IF ~on2
          THEN /\ Accepted < MaxCheckouts
               /\ Enqueue(pay, IF debited THEN "debited" ELSE "offline")
               /\ last' = CheckoutLast(pay, "queued", on2, IF r.thrown THEN "thrown" ELSE r.error,
                                       "skipped", 0, NextQid)
          ELSE /\ last' = CheckoutLast(pay, IF r.thrown THEN "error" ELSE "rejected", on2,
                                       IF r.thrown THEN "thrown" ELSE r.error,
                                       "skipped", 0, 0)
               /\ UNCHANGED <<queueVars, cartVars, hist>>
       /\ UNCHANGED <<remoteSaleVars, sync>>

\* lines 111-245 with processSaleBatches succeeding (so none of its remote calls
\* failed but, possibly, the best-effort deletes pf): the sales insert (ins1), its
\* fallback insert after a throw (ins2), the sale_items insert (itemsOk)
CheckoutInsert ==
  /\ cartItems # EmptyCart
  /\ online
  /\ \E pay \in Payments(SubtotalNow(cartItems, fifoUnitPrices)),
        pf \in SUBSET (1..Len(CartSeq(cartItems))),
        ins1 \in Outcomes, ins2 \in Outcomes, itemsOk \in BOOLEAN :
    LET total == SubtotalNow(cartItems, fifoUnitPrices)
        saleId == Len(sales) + 1
        ins == IF ins1 = "throw" THEN ins2 ELSE ins1
        cost == IF pf # {} \/ ins1 # "ok" \/ ~itemsOk THEN 1 ELSE 0
    IN /\ CashGuard(pay, total)
       /\ ins1 # "throw" => ins2 = "ok"
       /\ ins # "ok" => itemsOk
       /\ faults + cost <= MaxFaults
       /\ \E r \in {processSaleBatches(product_batches, products, CartSeq(cartItems), NoFault, pf)} :
          LET row == IF ins1 = "throw"
                     THEN SaleRow(total, [method |-> "null", cash |-> Null], Null, Null, Null, 0)
                     ELSE SaleRow(total, pay, Change(pay, total), r.cogs, ItemsCount(cartItems), 0) IN
          /\ ~r.thrown /\ r.error = NoError
          /\ faults' = faults + cost
          /\ clock' = clock
          /\ runs' = runs
          /\ pendingSync' = pendingSync
          /\ product_batches' = r.tbl
          /\ products' = r.prods
          /\ CASE ins = "ok" ->
                    /\ Accepted < MaxCheckouts
                    /\ sales' = Append(sales, row)
                    /\ sale_items' = IF itemsOk
                                     THEN sale_items \cup CartSaleItems(saleId, cartItems,
                                                             fifoUnitPrices, r.details)
                                     ELSE sale_items
                    /\ cartItems' = EmptyCart
                    /\ fifoUnitPrices' = EmptyCart
                    /\ last' = CheckoutLast(pay, "completed", online, "ok", "ok", saleId, 0)
                    /\ UNCHANGED <<queueVars, hist>>
               [] ins = "error" ->
                    /\ Accepted < MaxCheckouts
                    /\ Enqueue(pay, "debited")
                    /\ last' = CheckoutLast(pay, "queued", online, "ok", "failed", 0, NextQid)
                    /\ UNCHANGED remoteSaleVars
               [] ins = "throw" ->
                    /\ cartItems' = EmptyCart
                    /\ fifoUnitPrices' = EmptyCart
                    /\ last' = CheckoutLast(pay, "completed", online, "ok", "failed", 0, 0)
                    /\ UNCHANGED <<remoteSaleVars, queueVars, hist>>
          /\ UNCHANGED <<online, sync>>

handleCheckout ==
  /\ sync.pc = "idle"
  /\ \/ CheckoutEmptyCart
     \/ CheckoutCashRejected
     \/ CheckoutOffline
     \/ CheckoutFifoFailed
     \/ CheckoutInsert


\* the browser's online / offline events
Connectivity ==
  /\ online' = ~online
  /\ last' = [op |-> "connectivity"]
  /\ UNCHANGED <<ledgerVars, remoteSaleVars, queueVars, cartVars, sync, hist, faults, clock, runs, pendingSync>>

----------------------------------------------------------------------------
(* Synchronization driver, lib/sync.ts: one step per awaited stage of an entry *)

\* items.map(it => ({ productId: it.product_id, quantity: it.quantity }))
RECURSIVE FifoItemsFrom(_, _)
FifoItemsFrom(items, i) ==
  IF i > Len(ProdOrder) THEN <<>>
  ELSE LET its == {it \in items : it.product_id = ProdOrder[i]}
       IN (IF its = {} THEN <<>>
           ELSE <<[productId |-> ProdOrder[i],
                   quantity |-> (CHOOSE it \in its : TRUE).quantity]>>)
            \o FifoItemsFrom(items, i + 1)
FifoItems(items) == FifoItemsFrom(items, 1)

\* lines 9-10: the row is attempted
EligibleMutAny(row, targetId) == targetId = 0 \/ row.sale.id = targetId
Eligible(row, targetId) ==
  /\ targetId = 0 \/ row.sale.id = targetId
  /\ row.sale.status = "queued" \/ row.sale.status = "failed"

\* mutant: the rows are priced by the revenue of the fresh consumption
RECURSIVE LineRevenue(_, _)
LineRevenue(details, p) ==
  IF details = <<>> THEN 0
  ELSE IF Head(details).productId = p THEN Head(details).revenue
  ELSE LineRevenue(Tail(details), p)
SyncSaleItemsMutFresh(saleId, items, details) ==
  {[sale_id |-> saleId, product_id |-> it.product_id,
    unit_price |-> Ratio(LineRevenue(details, it.product_id), it.quantity),
    quantity |-> it.quantity, line_total |-> LineRevenue(details, it.product_id),
    line_cogs |-> LineCogs(details, it.product_id)] :
     it \in items}

\* the sale_items rows of a synced entry (lines 43-52)
SyncSaleItems(saleId, items, details) ==
  {[sale_id |-> saleId, product_id |-> it.product_id, unit_price |-> it.unit_price,
    quantity |-> it.quantity, line_total |-> it.line_total,
    line_cogs |-> LineCogs(details, it.product_id)] :
     it \in items}

SyncLast(op, id, result) == [op |-> op, id |-> id, result |-> result]

\* onSyncNow (targetId 0) or onSyncOne(id): line 6, the snapshot of the queue
SyncBegin ==
  \E targetId \in {0} \cup {q.id : q \in queued_sales} :
    /\ sync.pc = "idle"
    /\ cartItems = EmptyCart
    /\ sync' = [SyncIdle EXCEPT !.pc = "loop", !.targetId = targetId,
                                !.rows = listQueuedSales(queued_sales, queued_sale_items)]
    /\ last' = SyncLast("syncBegin", targetId, "ok")
    /\ UNCHANGED <<ledgerVars, remoteSaleVars, queueVars, cartVars, online, hist, faults, clock, runs, pendingSync>>

NextEligibleMutAgain ==
  {j \in 1..Len(sync.rows) : j >= sync.cur /\ j > 0 /\ Eligible(sync.rows[j], sync.targetId)}
NextEligible ==
  {j \in (sync.cur + 1)..Len(sync.rows) : Eligible(sync.rows[j], sync.targetId)}

\* lines 7-12: skip to the next eligible row and mark it syncing
SyncMark ==
  /\ sync.pc = "loop"
  /\ NextEligible # {}
  /\ LET j == CHOOSE k \in NextEligible : \A m \in NextEligible : k <= m
         id == sync.rows[j].sale.id
     IN /\ queued_sales' = setSaleStatus(queued_sales, id, "syncing", NoError, clock)
        /\ sync' = [sync EXCEPT !.cur = j, !.pc = "consume", !.tried = Append(@, id)]
        /\ hist' = [hist EXCEPT ![id].attempts = Min(@ + 1, HistCap)]
        /\ last' = SyncLast("syncMark", id, "ok")
  /\ UNCHANGED <<ledgerVars, remoteSaleVars, queued_sale_items, cartVars, online, faults, clock, runs, pendingSync>>

\* refreshQueue of the Admin page (part_001 lines 202-210): the figure it sets
refreshQueue(qs) == Cardinality({r \in qs : r.status = "queued"})

\* line 7: no row is left, the call returns to onSyncNow / onSyncOne, which
\* calls refreshQueue
SyncReturn ==
  /\ sync.pc = "loop"
  /\ NextEligible = {}
  /\ sync' = SyncIdle
  /\ pendingSync' = refreshQueue(queued_sales)
  /\ last' = SyncLast("syncReturn", sync.targetId, "ok")
  /\ UNCHANGED <<ledgerVars, remoteSaleVars, queueVars, cartVars, online, hist, faults, clock, runs>>

\* lines 14-20 and 61-63: the fresh FIFO consumption of the entry
SyncConsume ==
  /\ sync.pc = "consume"
  /\ LET row == sync.rows[sync.cur]
         id == row.sale.id
         items == FifoItems(row.items)
     IN \E f \in FifoFaults(product_batches, products, items),
           pf \in SUBSET (1..Len(items)) :
          /\ faults + FaultCost(f, pf) <= MaxFaults
          /\ \E r \in {processSaleBatches(product_batches, products, items, f, pf)} :
             /\ pf \subseteq 1..r.prunes
             /\ faults' = faults + FaultCost(f, pf)
             /\ clock' = clock
             /\ runs' = runs
             /\ pendingSync' = pendingSync
             /\ product_batches' = r.tbl
             /\ products' = r.prods
             /\ hist' = [hist EXCEPT ![id].debits =
                                       IF ~r.thrown /\ r.error = NoError
                                       THEN Min(@ + 1, HistCap) ELSE @]
             /\ IF r.thrown
                THEN /\ queued_sales' = setSaleStatus(queued_sales, id, "failed", "Sync error", clock)
                     /\ sync' = [sync EXCEPT !.pc = "loop"]
                     /\ last' = SyncLast("syncConsume", id, "thrown")
                ELSE IF r.error # NoError
                THEN /\ queued_sales' = setSaleStatus(queued_sales, id, "failed", r.error, clock)
                     /\ sync' = [sync EXCEPT !.pc = "loop"]
                     /\ last' = SyncLast("syncConsume", id, r.error)
                ELSE /\ queued_sales' = queued_sales
                     /\ sync' = [sync EXCEPT !.pc = "insert", !.cogs = r.cogs,
                                             !.details = r.details]
                     /\ last' = SyncLast("syncConsume", id, "ok")
  /\ UNCHANGED <<remoteSaleVars, queued_sale_items, cartVars, online>>

\* lines 22-59: the sales insert (ins), the sale_items insert (itemsOk), then done
SyncInsert ==
  /\ sync.pc = "insert"
  /\ \E ins \in Outcomes, itemsOk \in BOOLEAN :
       LET row == sync.rows[sync.cur]
           sale == row.sale
           saleId == Len(sales) + 1
           cost == IF ins # "ok" \/ ~itemsOk THEN 1 ELSE 0
       IN /\ ins # "ok" => itemsOk
          /\ faults + cost <= MaxFaults
          /\ faults' = faults + cost
          /\ clock' = clock
          /\ runs' = runs
          /\ pendingSync' = pendingSync
          /\ IF ins = "ok"
             THEN /\ sales' = Append(sales,
                                SaleRow(sale.total,
                                        [method |-> sale.payment_method,
                                         cash |-> sale.cash_received],
                                        sale.change, sync.cogs, sale.items_count, sale.id))
                  /\ sale_items' = IF itemsOk
                                   THEN sale_items
                                          \cup SyncSaleItems(saleId, row.items, sync.details)
                                   ELSE sale_items
                  /\ queued_sales' = setSaleStatus(queued_sales, sale.id, "done", NoError, clock)
                  /\ hist' = [hist EXCEPT ![sale.id].rows = Min(@ + 1, HistCap)]
                  /\ sync' = [sync EXCEPT !.pc = "delete"]
                  /\ last' = SyncLast("syncInsert", sale.id,
                                      IF itemsOk THEN "ok" ELSE "itemsFailed")
             ELSE /\ queued_sales' =
                       setSaleStatus(queued_sales, sale.id, "failed",
                                     IF ins = "error" THEN TransportError ELSE "Sync error",
                                     clock)
                  /\ sync' = [sync EXCEPT !.pc = "loop"]
                  /\ last' = SyncLast("syncInsert", sale.id, ins)
                  /\ UNCHANGED <<remoteSaleVars, hist>>
  /\ UNCHANGED <<ledgerVars, queued_sale_items, cartVars, online>>

\* line 60: deleteQueuedSale
SyncDelete ==
  /\ sync.pc = "delete"
  /\ LET id == sync.rows[sync.cur].sale.id
     IN /\ queued_sales' = deleteQueuedSaleRow(queued_sales, id)
        /\ queued_sale_items' = deleteQueuedSaleItems(queued_sale_items, id)
        /\ last' = SyncLast("syncDelete", id, "ok")
  /\ sync' = [sync EXCEPT !.pc = "loop"]
  /\ UNCHANGED <<ledgerVars, remoteSaleVars, cartVars, online, hist, faults, clock, runs, pendingSync>>

\* the page is reloaded or closed while a sync is awaiting: the call is gone and
\* the React state with it, the remote tables and IndexedDB stay as they are;
\* the page that is opened next loads the figure with getQueuedCount (line 94)
Reload ==
  /\ sync.pc # "idle"
  /\ sync' = SyncIdle
  /\ pendingSync' = getQueuedCount(queued_sales)
  /\ last' = [op |-> "reload"]
  /\ UNCHANGED <<ledgerVars, remoteSaleVars, queueVars, cartVars, online, hist, faults, clock, runs>>

----------------------------------------------------------------------------
(* SpecLedger: sales and restocks against the ledger, every remote call of which
   may fail *)

\* processSaleBatches(items) as the checkout and the sync driver call it
LedgerSale ==
  \E cart \in Carts \ {EmptyCart} :
    \E f \in FifoFaults(product_batches, products, CartSeq(cart)),
       pf \in SUBSET (1..Len(CartSeq(cart))) :
      /\ faults + FaultCost(f, pf) <= MaxFaults
      /\ \E r \in {processSaleBatches(product_batches, products, CartSeq(cart), f, pf)} :
         /\ pf \subseteq 1..r.prunes
         /\ product_batches' = r.tbl
         /\ products' = r.prods
         /\ faults' = faults + FaultCost(f, pf)
         /\ clock' = clock
         /\ runs' = runs
         /\ pendingSync' = pendingSync
         /\ last' = [op |-> "sale", ok |-> ~r.thrown /\ r.error = NoError,
                     items |-> CartSeq(cart), error |-> r.error, thrown |-> r.thrown,
                     stage |-> r.stage, consumedItems |-> r.consumedItems,
                     cogs |-> r.cogs, revenue |-> r.revenue]
         /\ UNCHANGED <<remoteSaleVars, queueVars, cartVars, online, sync, hist>>

\* onAddStock of the Admin page: addStockBatch, then the best-effort
\* deleteEmptyBatches (pruneOk)
AddStock ==
  \E pid \in {"p1"}, qty \in 1..MaxQty, f \in Faults(3), pruneOk \in BOOLEAN :
    LET free == FreeIds(product_batches)
        id == CHOOSE i \in free : \A j \in free : i <= j
        row == createProductBatch(id, pid, 20, 25, qty, qty,
                                  LatestCreated(product_batches) + 1)
        r == addStockBatch(product_batches, products, row, f)
    IN /\ free # {}
       /\ row.created_at <= MaxClock
       /\ r.status # "ok" => pruneOk
       /\ faults + FaultCost(f, IF pruneOk THEN {} ELSE {1}) <= MaxFaults
       /\ product_batches' = IF r.status = "ok" /\ pruneOk
                             THEN deleteEmptyBatches(r.tbl, pid) ELSE r.tbl
       /\ products' = r.prods
       /\ faults' = faults + FaultCost(f, IF pruneOk THEN {} ELSE {1})
       /\ clock' = clock
       /\ runs' = runs
       /\ pendingSync' = pendingSync
       /\ last' = [op |-> "restock", ok |-> r.status = "ok"]
       /\ UNCHANGED <<remoteSaleVars, queueVars, cartVars, online, sync, hist>>

NextLedger ==
  \/ LedgerSale
  \/ AddStock

----------------------------------------------------------------------------
(* Spec: one client, handler executions do not overlap *)

InitLedger ==
  {createProductBatch(1, "p1", 5, 15, 2, 2, 1),
   createProductBatch(2, "p2", 10, 12, 1, 1, 1)}

Init ==
  /\ product_batches = InitLedger
  /\ products = ProductsFor(product_batches)
  /\ InitRest

Next ==
  \/ SetCart
  \/ handleCheckout
  \/ Connectivity
  \/ SyncBegin
  \/ SyncMark
  \/ SyncReturn
  \/ SyncConsume
  \/ SyncInsert
  \/ SyncDelete
  \/ Reload

Spec == Init /\ [][Next]_vars

SpecLedger == Init /\ [][NextLedger]_vars

----------------------------------------------------------------------------
(* SpecQueue: the synchronization driver and the queue view of the Admin page on
   queues of several entries; handler executions do not overlap *)

QueueIds == {1, 2}

\* a stored sale of qty units of p1 as saveQueuedSale and setSaleStatus leave it:
\* stamped, with an error only when failed
StoredPay(method, total) ==
  [method |-> method, cash |-> IF method = "cash" THEN Cents(total + 1) + 4 ELSE Null]
StoredSale(id, qty, method, status, at) ==
  [QueuedSaleRow(id, ProductPrice["p1"] * qty, StoredPay(method, ProductPrice["p1"] * qty),
                 Change(StoredPay(method, ProductPrice["p1"] * qty), ProductPrice["p1"] * qty),
                 qty, at)
     EXCEPT !.status = status,
            !.error = IF status = "failed" THEN "Sync error" ELSE NoError]
StoredItems(id, qty) ==
  {[sale_id |-> id, product_id |-> "p1", unit_price |-> Ratio(ProductPrice["p1"], 1),
    quantity |-> qty, line_total |-> ProductPrice["p1"] * qty]}
StoredHist ==
  [i \in 1..Cardinality(QueueIds) |->
     [origin |-> "offline", attempts |-> 0, debits |-> 0, rows |-> 0]]

\* two lots of p1 bought at different costs, one lot of p2
QueueLedger ==
  {createProductBatch(1, "p1", 5, 15, 1, 1, 1),
   createProductBatch(2, "p1", 20, 25, 1, 1, 2),
   createProductBatch(3, "p2", 10, 12, 1, 1, 1)}

\* sales queued while offline, some of which failed in an earlier cycle
InitQueue ==
  /\ product_batches = QueueLedger
  /\ products = ProductsFor(product_batches)
  /\ InitLocal
  /\ clock = 1
  /\ \E st \in [QueueIds -> {"queued", "failed"}], qty \in [QueueIds -> 1..MaxQty],
        method \in {"digital", "cash"} :
       /\ queued_sales = {StoredSale(i, qty[i], method, st[i], clock) : i \in QueueIds}
       /\ queued_sale_items = UNION {StoredItems(i, qty[i]) : i \in QueueIds}
  /\ hist = StoredHist

\* the interval timer of the Admin page (part_001 line 98)
PendingTimer ==
  /\ pendingSync' = getQueuedCount(queued_sales)
  /\ pendingSync' # pendingSync
  /\ last' = [op |-> "pendingTimer"]
  /\ UNCHANGED <<ledgerVars, remoteSaleVars, queueVars, cartVars, online, sync, hist, faults,
                 clock, runs>>

\* onResetQueued(id): the Reset button, shown on a row of status syncing;
\* refreshQueue follows, as after onDeleteQueued
onResetQueued ==
  \E q \in queued_sales :
    /\ sync.pc = "idle"
    /\ q.status = "syncing"
    /\ queued_sales' = setSaleStatus(queued_sales, q.id, "queued", NoError, clock)
    /\ pendingSync' = refreshQueue(queued_sales')
    /\ last' = [op |-> "resetQueued", id |-> q.id]
    /\ UNCHANGED <<ledgerVars, remoteSaleVars, queued_sale_items, cartVars, online, sync,
                   hist, faults, clock, runs>>

\* onDeleteQueued(id): the Delete button of a row
onDeleteQueued ==
  \E q \in queued_sales :
    /\ sync.pc = "idle"
    /\ queued_sales' = deleteQueuedSaleRow(queued_sales, q.id)
    /\ queued_sale_items' = deleteQueuedSaleItems(queued_sale_items, q.id)
    /\ pendingSync' = refreshQueue(queued_sales')
    /\ last' = [op |-> "deleteQueued", id |-> q.id]
    /\ UNCHANGED <<ledgerVars, remoteSaleVars, cartVars, online, sync, hist, faults, clock, runs>>

NextQueue ==
  \/ SyncBegin
  \/ SyncMark
  \/ SyncReturn
  \/ SyncConsume
  \/ SyncInsert
  \/ SyncDelete
  \/ Reload
  \/ onResetQueued
  \/ onDeleteQueued
  \/ PendingTimer

SpecQueue == InitQueue /\ [][NextQueue]_vars

\* two sales of one unit queued while offline
InitQueueLive ==
  /\ product_batches = QueueLedger
  /\ products = ProductsFor(product_batches)
  /\ InitLocal
  /\ clock = 1
  /\ queued_sales = {StoredSale(i, 1, "digital", "queued", clock) : i \in QueueIds}
  /\ queued_sale_items = UNION {StoredItems(i, 1) : i \in QueueIds}
  /\ hist = StoredHist

\* the operator starts sync calls again and again, a started call runs on (its
\* consumption step is enabled whenever it is reached, so it is left), and the
\* page is reloaded finitely often
SyncFairness ==
  /\ WF_vars(SyncBegin)
  /\ WF_vars(SyncMark)
  /\ WF_vars(SyncReturn)
  /\ WF_vars(SyncInsert)
  /\ WF_vars(SyncDelete)
  /\ []<>(sync.pc # "consume")
  /\ <>[](last.op # "reload")

SpecQueueLive == InitQueueLive /\ [][NextQueue]_vars /\ SyncFairness

----------------------------------------------------------------------------
(* SpecOverlap: two syncQueuedSales calls of one client.  onSyncNow and onSyncOne
   (part_001 217-230) call syncQueuedSales without waiting for a call that is
   under way, and the buttons are not disabled meanwhile: at each await of one
   call the event loop may run the other. *)

\* the event loop leaves the call in sync at its await and resumes the other
\* call, or lets a handler start one
SwitchCall ==
  /\ sync # runs.other
  /\ sync' = runs.other
  /\ runs' = [runs EXCEPT !.other = sync]
  /\ last' = [op |-> "switch"]
  /\ UNCHANGED <<ledgerVars, remoteSaleVars, queueVars, cartVars, online, hist, faults,
                 clock, pendingSync>>

NextOverlap ==
  \/ SyncBegin
  \/ SyncMark
  \/ SyncReturn
  \/ SyncConsume
  \/ SyncInsert
  \/ SyncDelete
  \/ SwitchCall

SpecOverlap == InitQueueLive /\ [][NextOverlap]_vars

----------------------------------------------------------------------------
(* SpecStore: the operations of lib/offlineDB.ts that write the queue, called in
   any order and with any id; the checkout writes the queue by saveQueuedSale
   only, the sync driver and the Admin page by setSaleStatus and deleteQueuedSale
   only *)

\* the items of a stored sale: qty units of p1 and, for a sale of two lines, one
\* unit of p2
StoredLines(id, qty, lines) ==
  StoredItems(id, qty)
    \cup (IF lines = 1 THEN {}
          ELSE {[sale_id |-> id, product_id |-> "p2",
                 unit_price |-> Ratio(ProductPrice["p2"], 1), quantity |-> 1,
                 line_total |-> ProductPrice["p2"]]})

InitStore ==
  /\ product_batches = QueueLedger
  /\ products = ProductsFor(product_batches)
  /\ InitRest

\* saveQueuedSale(sale, items): the id is a fresh UUID, one transaction puts the
\* sale and its items
StoreSave ==
  \E qty \in 1..MaxQty, lines \in 1..Cardinality(Products) :
    /\ NextQid \in QueueIds
    /\ queued_sales' = queued_sales \cup {StoredSale(NextQid, qty, "digital", "queued", clock)}
    /\ queued_sale_items' = queued_sale_items \cup StoredLines(NextQid, qty, lines)
    /\ hist' = Append(hist, [origin |-> "offline", attempts |-> 0, debits |-> 0, rows |-> 0])
    /\ last' = [op |-> "save", id |-> NextQid]
    /\ UNCHANGED <<ledgerVars, remoteSaleVars, cartVars, online, sync, faults, clock, runs,
                   pendingSync>>

\* setSaleStatus(id, status), of an id that is in the queue or not
StoreSetStatus ==
  \E id \in QueueIds, status \in Statuses :
    /\ queued_sales' = setSaleStatus(queued_sales, id, status, NoError, clock)
    /\ last' = [op |-> "setStatus", id |-> id]
    /\ UNCHANGED <<ledgerVars, remoteSaleVars, queued_sale_items, cartVars, online, sync,
                   hist, faults, clock, runs, pendingSync>>

\* deleteQueuedSale(id), of an id that is in the queue or not: the transaction
\* completes in both cases (present is history)
StoreDelete ==
  \E id \in QueueIds :
    /\ queued_sales' = deleteQueuedSaleRow(queued_sales, id)
    /\ queued_sale_items' = deleteQueuedSaleItems(queued_sale_items, id)
    /\ last' = [op |-> "delete", id |-> id,
                present |-> \E q \in queued_sales : q.id = id, error |-> NoError]
    /\ UNCHANGED <<ledgerVars, remoteSaleVars, cartVars, online, sync, hist, faults, clock,
                   runs, pendingSync>>

NextStore ==
  \/ StoreSave
  \/ StoreSetStatus
  \/ StoreDelete

SpecStore == InitStore /\ [][NextStore]_vars

----------------------------------------------------------------------------
(* SpecStatus: setSaleStatus transaction by transaction.  Its get (lines 183-189)
   and its put (lines 194-199) are two transactions with an await between them;
   a deleteQueuedSale of the Delete button, or a saveQueuedSale of a checkout,
   may run between the two.  sync holds the call that is inside setSaleStatus:
   pc "put", the row it read and changed in rows. *)

\* setSaleStatus lines 182-193: the get; an absent id returns, a row that is
\* found is changed in memory
StatusGet ==
  \E id \in QueueIds, status \in Statuses :
    /\ sync.pc = "idle"
    /\ IF InQueueNow(id)
       THEN sync' = [SyncIdle EXCEPT
                       !.pc = "put", !.targetId = id,
                       !.rows = <<[sale |-> [getQueuedSale(id) EXCEPT
                                               !.status = status, !.error = NoError,
                                               !.status_updated_at = clock],
                                   items |-> {}]>>]
       ELSE sync' = SyncIdle
    /\ last' = [op |-> "statusGet", id |-> id, present |-> InQueueNow(id)]
    /\ UNCHANGED <<ledgerVars, remoteSaleVars, queueVars, cartVars, online, hist, faults,
                   clock, runs, pendingSync>>

\* setSaleStatus lines 194-199: the put of the changed row
StatusPut ==
  /\ sync.pc = "put"
  /\ queued_sales' = putQueuedSale(queued_sales, sync.rows[1].sale)
  /\ sync' = SyncIdle
  /\ last' = [op |-> "statusPut", id |-> sync.targetId]
  /\ UNCHANGED <<ledgerVars, remoteSaleVars, queued_sale_items, cartVars, online, hist,
                 faults, clock, runs, pendingSync>>

NextStatus ==
  \/ StoreSave
  \/ StatusGet
  \/ StatusPut
  \/ StoreDelete

SpecStatus == InitStore /\ [][NextStatus]_vars

----------------------------------------------------------------------------
(* SpecCheckout: the cart and the checkout handler alone, on a ledger whose lots
   of p1 sell at different prices and on the ledger of the end-to-end example *)

\* one open batch of p1: remaining 10, bought at 5, selling at 15
EndToEndLedger ==
  {createProductBatch(1, "p1", 5, 15, 10, 10, 1),
   createProductBatch(2, "p2", 10, 12, 1, 1, 1)}

InitCheckout ==
  /\ product_batches \in {QueueLedger, EndToEndLedger}
  /\ products = ProductsFor(product_batches)
  /\ InitRest

NextCheckout ==
  \/ SetCart
  \/ handleCheckout
  \/ Connectivity

SpecCheckout == InitCheckout /\ [][NextCheckout]_vars

----------------------------------------------------------------------------
(* SpecRace: processSaleBatches call by call.  Nothing in handleCheckout, in
   onSyncNow / onSyncOne or in syncQueuedSales keeps a second execution from
   starting while one awaits a remote call, and a second client runs the same
   code against the same tables: the remote calls of two sales interleave.  A
   sale of one item; remote calls succeed. *)

SetRun(p, r) == [runs EXCEPT !.of[p] = r]
RaceLast(op, p) == [op |-> op, run |-> p]

\* handleCheckout line 112 or syncQueuedSales line 15: processSaleBatches is called
RaceStart(p) ==
  \E kind \in {"checkout", "sync"}, qty \in 1..MaxQty :
    /\ runs.of[p].pc = "idle"
    /\ runs' = SetRun(p, [IdleRun EXCEPT !.pc = "validate", !.kind = kind,
                                         !.productId = "p1", !.quantity = qty])
    /\ last' = RaceLast("start", p)
    /\ UNCHANGED <<ledgerVars, remoteSaleVars, queueVars, cartVars, online, sync, hist,
                   faults, clock, pendingSync>>

\* processSaleBatches lines 132-136: getProductStock and the comparison
RaceValidate(p) ==
  LET r == runs.of[p]
  IN /\ r.pc = "validate"
     /\ runs' = SetRun(p, IF getProductStock(product_batches, r.productId) < r.quantity
                          THEN IdleRun ELSE [r EXCEPT !.pc = "read"])
     /\ last' = RaceLast("validate", p)
     /\ UNCHANGED <<ledgerVars, remoteSaleVars, queueVars, cartVars, online, sync, hist,
                    faults, clock, pendingSync>>

\* consumeBatchesFIFO lines 89-112: the read of the open batches and the walk
RaceRead(p) ==
  LET r == runs.of[p]
      bs == SelectOpenBatches(product_batches, r.productId)
      w == FifoWalk(bs, r.quantity, EmptyWalk)
  IN /\ r.pc = "read"
     /\ runs' = SetRun(p, IF Shortfall(w) THEN IdleRun
                          ELSE [r EXCEPT !.pc = "update", !.updates = w.updates,
                                         !.planned = w.updates,
                                         !.batches = [i \in 1..Len(bs) |->
                                                        [id |-> bs[i].id,
                                                         remaining_quantity |->
                                                           bs[i].remaining_quantity]]])
     /\ last' = RaceLast("read", p)
     /\ UNCHANGED <<ledgerVars, remoteSaleVars, queueVars, cartVars, online, sync, hist,
                    faults, clock, pendingSync>>

\* consumeBatchesFIFO lines 114-120: one update of the loop
RaceUpdate(p) ==
  LET r == runs.of[p]
  IN /\ r.pc = "update"
     /\ r.updates # <<>>
     /\ product_batches' = UpdateRemaining(product_batches, Head(r.updates).id,
                                           Head(r.updates).remaining_quantity)
     /\ runs' = SetRun(p, [r EXCEPT !.updates = Tail(@),
                                    !.pc = IF Tail(r.updates) = <<>> THEN "stockRead"
                                           ELSE "update"])
     /\ last' = RaceLast("update", p)
     /\ UNCHANGED <<products, remoteSaleVars, queueVars, cartVars, online, sync, hist,
                    faults, clock, pendingSync>>

\* updateProductStockDelta lines 255-259: the read of products.stock
RaceStockRead(p) ==
  LET r == runs.of[p]
  IN /\ r.pc = "stockRead"
     /\ runs' = SetRun(p, [r EXCEPT !.pc = "stockWrite",
                                    !.stock = products[r.productId].stock])
     /\ last' = RaceLast("stockRead", p)
     /\ UNCHANGED <<ledgerVars, remoteSaleVars, queueVars, cartVars, online, sync, hist,
                    faults, clock, pendingSync>>

\* updateProductStockDelta lines 261-265: the write of stock + delta
RaceStockWrite(p) ==
  LET r == runs.of[p]
  IN /\ r.pc = "stockWrite"
     /\ products' = [products EXCEPT ![r.productId].stock = r.stock - r.quantity]
     /\ runs' = SetRun(p, [r EXCEPT !.pc = "prune"])
     /\ last' = RaceLast("stockWrite", p)
     /\ UNCHANGED <<product_batches, remoteSaleVars, queueVars, cartVars, online, sync,
                    hist, faults, clock, pendingSync>>

\* processSaleBatches line 150: deleteEmptyBatches, then the call returns
RacePrune(p) ==
  LET r == runs.of[p]
  IN /\ r.pc = "prune"
     /\ product_batches' = deleteEmptyBatches(product_batches, r.productId)
     /\ runs' = SetRun(p, IdleRun)
     /\ last' = RaceLast("prune", p)
     /\ UNCHANGED <<products, remoteSaleVars, queueVars, cartVars, online, sync, hist,
                    faults, clock, pendingSync>>

\* onAddStock: addStockBatch and deleteEmptyBatches, all calls succeeding
RaceRestock ==
  \E qty \in 1..MaxQty :
    LET id == Cardinality(InitLedger) + runs.made + 1
        row == createProductBatch(id, "p1", 20, 25, qty, qty,
                                  LatestCreated(product_batches) + 1)
        r == addStockBatch(product_batches, products, row, NoFault)
    IN /\ id \in BatchIds
       /\ row.created_at <= MaxClock
       /\ product_batches' = deleteEmptyBatches(r.tbl, "p1")
       /\ products' = r.prods
       /\ runs' = [runs EXCEPT !.made = @ + 1]
       /\ last' = RaceLast("restock", 0)
       /\ UNCHANGED <<remoteSaleVars, queueVars, cartVars, online, sync, hist, faults,
                      clock, pendingSync>>

\* saveBatchPrice: updateBatchSellingPrice(batchId, value), value > 0
RacePrice ==
  \E b \in BatchesOf(product_batches, "p1"), value \in {LotPrice[2][2]} :
    /\ value # b.selling_price
    /\ product_batches' = {IF x.id = b.id THEN [x EXCEPT !.selling_price = value] ELSE x :
                             x \in product_batches}
    /\ last' = RaceLast("price", 0)
    /\ UNCHANGED <<products, remoteSaleVars, queueVars, cartVars, online, sync, hist,
                   faults, clock, runs, pendingSync>>

\* the Delete button of a batch row: deleteProductBatch(id)
RaceDeleteBatch ==
  \E b \in BatchesOf(product_batches, "p1") :
    /\ product_batches' = deleteProductBatch(product_batches, b.id)
    /\ last' = RaceLast("deleteBatch", 0)
    /\ UNCHANGED <<products, remoteSaleVars, queueVars, cartVars, online, sync, hist,
                   faults, clock, runs, pendingSync>>

RaceStep(p) ==
  \/ RaceStart(p)
  \/ RaceValidate(p)
  \/ RaceRead(p)
  \/ RaceUpdate(p)
  \/ RaceStockRead(p)
  \/ RaceStockWrite(p)
  \/ RacePrune(p)

NextRace ==
  \/ \E p \in Runs : RaceStep(p)
  \/ RaceRestock
  \/ RacePrice
  \/ RaceDeleteBatch

SpecRace == Init /\ [][NextRace]_vars

----------------------------------------------------------------------------
(* SpecAdmin: the ledger as the Admin page and the sales change it, one handler
   at a time: sales, restocks, the Delete button of a batch row and the backfill
   of an initial batch *)

\* createInitialBatchForNewProduct with a selling price given: createProductBatch
\* with remaining_quantity = quantity; products.stock is not written
createInitialBatchForNewProduct(tbl, row, f) ==
  IF CallOutcome(1, f) = "ok" THEN tbl \cup {row} ELSE tbl

\* the Create Initial Batch button, shown for a product that has stock and no
\* batch: the quantity is the operator's
onCreateInitialBatch ==
  \E pid \in Products, qty \in 1..MaxQty, f \in Faults(1) :
    LET id == Cardinality(InitLedger) + runs.made + 1
        row == createProductBatch(id, pid, 20, 25, qty, qty,
                                  LatestCreated(product_batches) + 1)
    IN /\ BatchesOf(product_batches, pid) = {}
       /\ products[pid].stock > 0
       /\ id \in BatchIds
       /\ row.created_at <= MaxClock
       /\ faults + FaultCost(f, {}) <= MaxFaults
       /\ product_batches' = createInitialBatchForNewProduct(product_batches, row, f)
       /\ runs' = [runs EXCEPT !.made = IF CallOutcome(1, f) = "ok" THEN @ + 1 ELSE @]
       /\ faults' = faults + FaultCost(f, {})
       /\ last' = [op |-> "backfill", ok |-> CallOutcome(1, f) = "ok",
                   pid |-> pid, quantity |-> qty]
       /\ UNCHANGED <<products, remoteSaleVars, queueVars, cartVars, online, sync, hist,
                      clock, pendingSync>>

\* onAddStock lines 269-280: the checks of the parsed fields (np = Null: no new
\* selling price typed)
AddStockValidMutAny(qty, bp, np) == TRUE
AddStockValid(qty, bp, np) ==
  /\ ~(qty <= 0)
  /\ ~(bp <= 0)
  /\ ~(np # Null /\ np <= 0)

\* what the operator may type into the Add Stock fields of a product
AddStockQty == {0 - 1, 0, 1, MaxQty}
AddStockBp == {0 - 1, 0, 20}
AddStockNp == {Null, 0, 25}

\* onAddStock of the Admin page, the fields as typed: the checks, addStockBatch
\* (which gives createProductBatch no remaining_quantity), then the best-effort
\* deleteEmptyBatches (pruneOk)
onAddStock ==
  \E pid \in {"p1"}, qty \in AddStockQty, bp \in AddStockBp, np \in AddStockNp,
     f \in Faults(3), pruneOk \in BOOLEAN :
    LET id == Cardinality(InitLedger) + runs.made + 1
        row == createProductBatch(id, pid, bp, IF np # Null THEN np ELSE products[pid].price,
                                  qty, InsertedRemaining(Null, qty),
                                  LatestCreated(product_batches) + 1)
        r == addStockBatch(product_batches, products, row, f)
        cost == FaultCost(f, IF pruneOk THEN {} ELSE {1})
        result == [op |-> "addStock", pid |-> pid, quantity |-> qty, bought_price |-> bp,
                   id |-> id]
    IN IF ~AddStockValid(qty, bp, np)
       THEN /\ f = NoFault /\ pruneOk
            /\ last' = [result EXCEPT !.id = 0] @@ [error |-> "validation"]
            /\ UNCHANGED <<ledgerVars, remoteSaleVars, queueVars, cartVars, online, sync,
                           hist, faults, clock, runs, pendingSync>>
       ELSE /\ id \in BatchIds
            /\ row.created_at <= MaxClock
            /\ r.status # "ok" => pruneOk
            /\ faults + cost <= MaxFaults
            /\ product_batches' = IF r.status = "ok" /\ pruneOk
                                  THEN deleteEmptyBatches(r.tbl, pid) ELSE r.tbl
            /\ products' = r.prods
            /\ runs' = [runs EXCEPT !.made = IF r.tbl # product_batches THEN @ + 1 ELSE @]
            /\ faults' = faults + cost
            /\ last' = result @@ [error |-> IF r.status = "ok" THEN NoError ELSE TransportError]
            /\ UNCHANGED <<remoteSaleVars, queueVars, cartVars, online, sync, hist, clock,
                           pendingSync>>

NextAdmin ==
  \/ LedgerSale
  \/ onAddStock
  \/ RaceDeleteBatch
  \/ onCreateInitialBatch

SpecAdmin == Init /\ [][NextAdmin]_vars

----------------------------------------------------------------------------
(* SpecQuote: quoteSaleBatches and processSaleBatches as functions of an item
   list, on ledgers of every shape; remote calls succeed *)

QuoteItem == [productId : Products, quantity : 0..MaxQty]
\* the item lists tried: one or two items, the same product twice included
ItemLists == {<<a>> : a \in QuoteItem} \cup {<<a, b>> : a \in QuoteItem, b \in QuoteItem}

\* product_batches after the remote calls of quoteSaleBatches(items): each is a
\* select (lines 58-64), no row is written
QuoteCallsMutConsume(tbl, items) ==
  consumeBatchesFIFO(tbl, Head(items).productId, Head(items).quantity, 0, NoFault).tbl
QuoteCalls(tbl, items) == tbl

\* one call of quoteSaleBatches(items) on the ledger Init drew
QuoteCall ==
  \E items \in ItemLists :
    /\ last.op = "init"
    /\ product_batches' = QuoteCalls(product_batches, items)
    /\ last' = [op |-> "quote", items |-> items,
                revenue |-> quoteSaleBatches(product_batches, items)]
    /\ UNCHANGED <<products, remoteSaleVars, queueVars, cartVars, online, sync, hist,
                   faults, clock, runs, pendingSync>>

\* one call of processSaleBatches(items) on the ledger Init drew
ConsumeMany ==
  \E items \in ItemLists :
    /\ last.op = "init"
    /\ \E r \in {processSaleBatches(product_batches, products, items, NoFault, {})} :
       /\ product_batches' = r.tbl
       /\ products' = r.prods
       /\ last' = [op |-> "consumeMany", items |-> items,
                   ok |-> ~r.thrown /\ r.error = NoError, revenue |-> r.revenue]
    /\ UNCHANGED <<remoteSaleVars, queueVars, cartVars, online, sync, hist, faults, clock,
                   runs, pendingSync>>

NextQuote ==
  \/ QuoteCall
  \/ ConsumeMany

SpecQuote == InitFifo /\ [][NextQuote]_vars

----------------------------------------------------------------------------
(* SpecReset: resetStaleSyncing applied to queues of every shape, as time passes *)

MaxTime == 3         \* the clock runs from 1 to MaxTime

InitReset ==
  /\ product_batches = {}
  /\ products = ProductsFor(product_batches)
  /\ InitLocal
  /\ clock \in 1..MaxTime
  /\ \E st \in [QueueIds -> Statuses], at \in [QueueIds -> 1..MaxTime] :
       /\ \A i \in QueueIds : at[i] <= clock
       /\ queued_sales = {StoredSale(i, 1, "digital", st[i], at[i]) : i \in QueueIds}
  /\ queued_sale_items = UNION {StoredItems(i, 1) : i \in QueueIds}
  /\ hist = StoredHist

\* resetStaleSyncing(thresholdMs): Date.now() is the clock
ResetStale ==
  \E thresholdMs \in 0..(MaxTime - 1) :
    /\ queued_sales' = resetStaleSyncing(queued_sales, thresholdMs, clock)
    /\ last' = [op |-> "resetStale", thresholdMs |-> thresholdMs]
    /\ UNCHANGED <<ledgerVars, remoteSaleVars, queued_sale_items, cartVars, online, sync,
                   hist, faults, clock, runs, pendingSync>>

\* time passes
Tick ==
  /\ clock < MaxTime
  /\ clock' = clock + 1
  /\ last' = [op |-> "tick"]
  /\ UNCHANGED <<ledgerVars, remoteSaleVars, queueVars, cartVars, online, sync, hist, faults, runs, pendingSync>>

NextReset ==
  \/ ResetStale
  \/ Tick

SpecReset == InitReset /\ [][NextReset]_vars

\* the row of id in the store qs
SaleById(qs, id) == CHOOSE q \in qs : q.id = id

\* C12: resetStaleSyncing(thresholdMs) changes exactly the rows of status syncing
\* whose status_updated_at is more than thresholdMs before now: each becomes
\* queued with the error 'Reset stale syncing' and a fresh stamp, its other
\* fields kept; a syncing row not older than the threshold and every row of
\* status queued, failed or done stay as they are, and no row or item is added
\* or removed.
C12_ResetStaleExactly ==
  [][last'.op = "resetStale" =>
       /\ {q.id : q \in queued_sales'} = {q.id : q \in queued_sales}
       /\ Cardinality(queued_sales') = Cardinality(queued_sales)
       /\ queued_sale_items' = queued_sale_items
       /\ \A q \in queued_sales :
            IF q.status = "syncing" /\ clock - q.status_updated_at > last'.thresholdMs
            THEN SaleById(queued_sales', q.id)
                   = [q EXCEPT !.status = "queued", !.error = "Reset stale syncing",
                               !.status_updated_at = clock]
            ELSE q \in queued_sales']_vars

\* one reset left a stale syncing row queued and a fresh syncing row syncing
C12_Witness ==
  /\ last.op = "resetStale"
  /\ \E q \in queued_sales : q.status = "queued" /\ q.error = "Reset stale syncing"
  /\ \E q \in queued_sales :
       q.status = "syncing" /\ clock - q.status_updated_at <= last.thresholdMs

----------------------------------------------------------------------------
(* Cache-ledger consistency *)

\* the ledger sum of a product minus its cached stock
Drift(tbl, prods, p) == getProductStock(tbl, p) - prods[p].stock
Consistent(tbl, prods) == \A p \in Products : Drift(tbl, prods, p) = 0
LedgerOp(l) == l.op = "sale" \/ l.op = "restock"

----------------------------------------------------------------------------
(* Offline checkout and synchronization *)

\* the status of queue entry id, "absent" when the store has no such row
StatusOf(qs, id) ==
  IF \E q \in qs : q.id = id THEN (CHOOSE q \in qs : q.id = id).status ELSE "absent"

\* the quantity of product p in the items of queue entry id
EntryQty(qi, id, p) ==
  LET its == {it \in qi : it.sale_id = id /\ it.product_id = p}
  IN IF its = {} THEN 0 ELSE (CHOOSE it \in its : TRUE).quantity

\* the ledger holds the quantities of queue entry id
Covers(tbl, qi, id) == \A p \in Products : EntryQty(qi, id, p) <= getProductStock(tbl, p)

\* a checkout that got past the empty-cart check and the cash guard
Reached(l) == l.op = "checkout" /\ l.outcome \notin {"empty", "cashRejected"}

C4_OfflineCheckout ==
  (Reached(last') /\ ~last'.online) =>
    /\ last'.outcome = "queued"
    /\ UNCHANGED ledgerVars
    /\ \E q \in queued_sales' :
         /\ q.id = last'.qid /\ q.status = "queued"
         /\ q \notin queued_sales /\ queued_sales' = queued_sales \cup {q}
    /\ \A p \in Products : EntryQty(queued_sale_items', last'.qid, p) = cartItems[p]

C4_SyncConsume ==
  last'.op = "syncConsume" =>
    /\ (faults' = faults /\ Covers(product_batches, queued_sale_items, last'.id))
         => last'.result = "ok"
    /\ last'.result = "ok" =>
         \A p \in Products :
           /\ getProductStock(product_batches', p)
                = getProductStock(product_batches, p)
                    - EntryQty(queued_sale_items, last'.id, p)
           /\ products'[p].stock
                = products[p].stock - EntryQty(queued_sale_items, last'.id, p)

C4_SyncPersist ==
  (last'.op = "syncInsert" /\ faults' = faults) =>
    /\ StatusOf(queued_sales', last'.id) = "done"
    /\ Len(sales') = Len(sales) + 1

C4_SyncDelete ==
  last'.op = "syncDelete" =>
    /\ StatusOf(queued_sales', last'.id) = "absent"
    /\ \A it \in queued_sale_items' : it.sale_id # last'.id
    /\ (hist[last'.id].origin = "offline" /\ hist[last'.id].attempts = 1)
         => (hist[last'.id].debits = 1 /\ hist[last'.id].rows = 1)

\* C4: a checkout made while navigator.onLine is false adds one queue entry of
\* status queued holding the cart's quantities and changes no batch and no
\* products.stock; a later syncQueuedSales attempt on an entry whose quantities the
\* ledger holds, no remote call of which fails, lowers the batch sum and the
\* stock of every product by exactly the entry's quantity, inserts the sale, and
\* removes the entry and its items; when that is the entry's first attempt the
\* ledger has been decremented for it exactly once.
C4_OfflineThenSync ==
  [][C4_OfflineCheckout /\ C4_SyncConsume /\ C4_SyncPersist /\ C4_SyncDelete]_vars

\* an offline sale was synced at its first attempt and is gone from the queue
C4_Witness ==
  /\ last.op = "syncDelete"
  /\ hist[last.id].origin = "offline"
  /\ hist[last.id].attempts = 1 /\ hist[last.id].debits = 1
  /\ queued_sales = {} /\ queued_sale_items = {}
  /\ Len(sales) = 1 /\ faults = 0
  /\ getProductStock(product_batches, "p1") < getProductStock(InitLedger, "p1")

\* C5, as stated: over any sequence of sync cycles the ledger is decremented for a
\* queued sale's items at most once and at most one remote sales row is made for
\* it (here for the sales queued by a checkout that consumed nothing).
C5_NoDoubleCount ==
  \A i \in 1..Len(hist) :
    hist[i].origin = "offline" => (hist[i].debits <= 1 /\ hist[i].rows <= 1)

\* C6, as stated: a checkout whose processSaleBatches succeeded and whose sales
\* insert did not ends queued with a queue entry of status queued, and no
\* checkout is completed with neither a remote sales row nor a queue entry.
C6_NoDebitedSaleLost ==
  last.op = "checkout" =>
    /\ (last.fifo = "ok" /\ last.insert = "failed")
         => (last.outcome = "queued" /\ StatusOf(queued_sales, last.qid) = "queued")
    /\ last.outcome = "completed" => (last.saleId # 0 \/ last.qid # 0)

\* the effect common to the rejections: nothing is written, the cart is kept
NothingChanged == UNCHANGED <<ledgerVars, remoteSaleVars, queueVars, cartVars>>

\* C7, as stated: a checkout with a cart line above the product's stock is
\* rejected before any consumption; no batch, stock, remote sale or queue entry
\* is made or changed and the cart is kept.
C7_AsStated ==
  [][(Reached(last') /\ last'.exceeds) =>
       (last'.outcome = "rejected" /\ NothingChanged)]_vars

\* C7, amended: a checkout with a cart line above the sum of remaining_quantity of
\* the product's batches, made with navigator.onLine true at line 110 and when
\* the failure is handled, is rejected before any consumption: no batch, stock,
\* remote sale or queue entry is made or changed and the cart is kept; the error
\* is the validation's 'Insufficient stock' when no remote read failed.
C7_OversizeRejectedOnline ==
  [][(Reached(last') /\ last'.exceeds /\ last'.online /\ last'.online2) =>
       /\ last'.outcome \in {"rejected", "error"}
       /\ NothingChanged
       /\ faults' = faults =>
            /\ last'.outcome = "rejected"
            /\ last'.fifo = "Insufficient stock for one or more items"]_vars

\* an oversize cart was rejected online and is still in the cart
C7_Witness ==
  /\ Reached(last) /\ last.exceeds /\ last.online /\ last.online2
  /\ last.outcome = "rejected" /\ last.fifo = "Insufficient stock for one or more items"
  /\ cartItems # EmptyCart

\* C8, as stated: a checkout in which a remote call of processSaleBatches or the
\* sales insert fails ends queued, with a queue entry of status queued and its
\* items, and not rejected.
C8_TransportErrorQueues ==
  (last.op = "checkout"
     /\ (last.fifo \in {TransportError, "thrown"} \/ last.insert = "failed")) =>
    /\ last.outcome = "queued"
    /\ StatusOf(queued_sales, last.qid) = "queued"
    /\ \E it \in queued_sale_items : it.sale_id = last.qid

\* the entry whose status a step sets to done
NewlyDone == {q.id : q \in {r \in queued_sales' : r.status = "done"}}
               \ {q.id : q \in {r \in queued_sales : r.status = "done"}}
\* the entries a step removes from the queue
Removed == {q.id : q \in queued_sales} \ {q.id : q \in queued_sales'}
\* the steps of syncQueuedSales that end with the entry failed and kept
FailedAndKept(id) ==
  /\ StatusOf(queued_sales', id) = "failed"
  /\ queued_sale_items' = queued_sale_items
  /\ \E it \in queued_sale_items' : it.sale_id = id
\* the sale_items rows of sale saleId
ItemsOfSale(si, saleId) == {it \in si : it.sale_id = saleId}

\* C9, as stated: an entry is set done and deleted only after its sales row and
\* its sale_items rows were inserted; when the insert of the sales row or of the
\* sale_items rows fails the entry is set failed and stays queued with its items.
C9_AsStated ==
  [][/\ \A id \in NewlyDone :
          /\ Len(sales') = Len(sales) + 1
          /\ ItemsOfSale(sale_items', Len(sales')) # {}
     /\ \A id \in Removed : StatusOf(queued_sales, id) = "done"
     /\ (last'.op = "syncInsert" /\ last'.result # "ok") => FailedAndKept(last'.id)]_vars

\* C9, amended: an entry is set done only in the step that inserted its sales
\* row, and deleted only when done; when the insert of the sales row fails the
\* entry is set failed and stays queued with its items; a failed insert of the
\* sale_items rows is ignored, the entry is set done without them.
C9_DoneAfterSaleRow ==
  [][/\ \A id \in NewlyDone :
          /\ last'.op = "syncInsert" /\ last'.id = id
          /\ Len(sales') = Len(sales) + 1
          /\ sales'[Len(sales')].qid = id
     /\ \A id \in Removed :
          /\ last'.op = "syncDelete" /\ last'.id = id
          /\ StatusOf(queued_sales, id) = "done"
     /\ last'.op = "syncInsert" =>
          /\ last'.result \in {"error", "throw"} =>
               /\ FailedAndKept(last'.id)
               /\ UNCHANGED remoteSaleVars
          /\ last'.result = "ok" =>
               /\ last'.id \in NewlyDone
               /\ ItemsOfSale(sale_items', Len(sales')) # {}
          /\ last'.result = "itemsFailed" =>
               /\ last'.id \in NewlyDone
               /\ sale_items' = sale_items]_vars

\* an entry was set done although its sale_items insert failed
C9_Witness ==
  /\ last.op = "syncInsert" /\ last.result = "itemsFailed"
  /\ StatusOf(queued_sales, last.id) = "done"
  /\ Len(sales) = 1 /\ sale_items = {}

\* the status entry id had when the running call listed the queue
Listed(id) ==
  LET js == {j \in 1..Len(sync.rows) : sync.rows[j].sale.id = id}
  IN IF js = {} THEN "absent" ELSE sync.rows[CHOOSE j \in js : TRUE].sale.status

SyncSteps == {"syncMark", "syncConsume", "syncInsert", "syncDelete", "syncReturn"}

\* C10: syncQueuedSales attempts only entries of status queued or failed and sets
\* the entry to syncing before it consumes for it; an entry that was syncing or
\* done when the call listed the queue is not consumed for, not inserted
\* remotely and not modified by the call.
C10_SyncEligibility ==
  [][last'.op \in SyncSteps =>
       /\ last'.op = "syncMark" =>
            /\ StatusOf(queued_sales, last'.id) \in {"queued", "failed"}
            /\ StatusOf(queued_sales', last'.id) = "syncing"
            /\ UNCHANGED <<ledgerVars, remoteSaleVars>>
       /\ last'.op = "syncConsume" =>
            /\ StatusOf(queued_sales, last'.id) = "syncing"
            /\ Listed(last'.id) \in {"queued", "failed"}
       /\ last'.op \in {"syncInsert", "syncDelete"} =>
            Listed(last'.id) \in {"queued", "failed"}
       /\ \A q \in queued_sales :
            Listed(q.id) \in {"syncing", "done"} =>
              /\ q \in queued_sales'
              /\ hist'[q.id] = hist[q.id]
              /\ {it \in queued_sale_items' : it.sale_id = q.id}
                   = {it \in queued_sale_items : it.sale_id = q.id}
       /\ last'.op = "syncReturn" => UNCHANGED <<ledgerVars, remoteSaleVars, queueVars>>]_vars

\* a call went through a queue holding a syncing entry and left it alone
C10_Witness ==
  /\ last.op = "syncReturn"
  /\ \E q \in queued_sales : q.status = "syncing" /\ hist[q.id].attempts = 1

----------------------------------------------------------------------------
(* processSaleBatches over several items, under SpecLedger *)

\* the FIFO walk of the item it on the ledger tbl
ItemWalk(tbl, it) == FifoWalk(SelectOpenBatches(tbl, it.productId), it.quantity, EmptyWalk)
\* the cost and the revenue of the items before position k
CogsBefore(tbl, items, k) ==
  SumF([i \in 1..Len(items) |-> ItemWalk(tbl, items[i]).cogs], 1..(k - 1))
RevenueBefore(tbl, items, k) ==
  SumF([i \in 1..Len(items) |-> ItemWalk(tbl, items[i]).revenue], 1..(k - 1))

\* the step lowered the batch sum of the item's product by the item's quantity
BatchesDebited(it) ==
  getProductStock(product_batches', it.productId)
    = getProductStock(product_batches, it.productId) - it.quantity
\* the step lowered products.stock of the item's product by the item's quantity
StockDebited(it) ==
  products'[it.productId].stock = products[it.productId].stock - it.quantity
\* the step left the batches and the stock of the item's product as they were
Untouched(it) ==
  /\ BatchesOf(product_batches', it.productId) = BatchesOf(product_batches, it.productId)
  /\ products'[it.productId] = products[it.productId]

\* C17: when consumeBatchesFIFO fails for item k of processSaleBatches, no item
\* after k is consumed (its batches and stock are untouched), the batch and stock
\* decrements of the items before k stay applied, and the returned value carries
\* the error with the cogs and revenue summed over the items before k.
C17_ConsumeManyAbort ==
  [][(last'.op = "sale" /\ last'.stage = "consume") =>
       LET items == last'.items
           k == last'.consumedItems + 1
       IN /\ \A i \in 1..Len(items) :
               /\ i < k => (BatchesDebited(items[i]) /\ StockDebited(items[i]))
               /\ i > k => Untouched(items[i])
          /\ ~last'.thrown =>
               /\ last'.error # NoError
               /\ last'.cogs = CogsBefore(product_batches, items, k)
               /\ last'.revenue = RevenueBefore(product_batches, items, k)]_vars

\* the second item of a sale failed to consume after the first was consumed
C17_Witness ==
  /\ last.op = "sale" /\ last.stage = "consume" /\ ~last.thrown
  /\ Len(last.items) = 2 /\ last.consumedItems = 1
  /\ last.error = TransportError /\ last.cogs > 0 /\ last.revenue > 0
  /\ getProductStock(product_batches, "p1") < getProductStock(InitLedger, "p1")
  /\ getProductStock(product_batches, "p2") = getProductStock(InitLedger, "p2")

\* C18: processSaleBatches lowers products.stock by the item's quantity for every
\* item it consumed and whose stock update succeeded; when the stock update of an
\* item fails the run ends with that failure (returned, or raised when the call
\* rejects), the item's batch decrements stay applied and its stock is not changed.
C18_StockFollowsConsume ==
  [][last'.op = "sale" =>
       LET items == last'.items
           n == IF last'.stage = "stock" THEN last'.consumedItems - 1
                ELSE last'.consumedItems
       IN /\ \A i \in 1..n : StockDebited(items[i])
          /\ last'.ok => n = Len(items)
          /\ last'.stage = "stock" =>
               LET it == items[last'.consumedItems]
               IN /\ last'.thrown \/ last'.error # NoError
                  /\ BatchesDebited(it)
                  /\ products'[it.productId].stock = products[it.productId].stock]_vars

\* a sale consumed an item and the write of its stock returned an error
C18_Witness ==
  /\ last.op = "sale" /\ last.stage = "stock" /\ last.error = TransportError
  /\ last.consumedItems = 1
  /\ \E p \in Products :
       /\ last.items[1].productId = p
       /\ getProductStock(product_batches, p) = products[p].stock - last.items[1].quantity

----------------------------------------------------------------------------
(* The synchronization driver on several entries, under SpecQueue *)

\* the ids in a sequence
Ids(seq) == {seq[i] : i \in 1..Len(seq)}
NoRepeat(seq) == \A i, j \in 1..Len(seq) : seq[i] = seq[j] => i = j

\* C11: when processSaleBatches fails for an entry, the entry is set failed with
\* the error's message and the call goes on with its loop over the same
\* snapshot; a call sets an entry syncing at most once, and when it returns it
\* has tried every entry of its snapshot that was eligible.
C11_FailedEntryDoesNotStopCycle ==
  [][/\ (last'.op = "syncConsume" /\ last'.result # "ok") =>
          /\ StatusOf(queued_sales', last'.id) = "failed"
          /\ SaleById(queued_sales', last'.id).error
               = (IF last'.result = "thrown" THEN "Sync error" ELSE last'.result)
          /\ SaleById(queued_sales', last'.id).error # NoError
          /\ sync'.pc = "loop"
          /\ sync'.rows = sync.rows /\ sync'.cur = sync.cur /\ sync'.tried = sync.tried
     /\ last'.op = "syncMark" =>
          /\ last'.id \notin Ids(sync.tried)
          /\ sync'.tried = Append(sync.tried, last'.id)
     /\ NoRepeat(sync'.tried)
     /\ last'.op = "syncReturn" =>
          \A j \in 1..Len(sync.rows) :
            Eligible(sync.rows[j], sync.targetId) => sync.rows[j].sale.id \in Ids(sync.tried)]_vars

\* a call whose first entry failed for want of stock is consuming its second
C11_Witness ==
  /\ sync.pc = "consume" /\ Len(sync.tried) = 2
  /\ StatusOf(queued_sales, sync.tried[1]) = "failed"
  /\ SaleById(queued_sales, sync.tried[1]).error = "Insufficient stock for one or more items"
  /\ StatusOf(queued_sales, sync.tried[2]) = "syncing"

\* C13, as stated: an entry of status syncing does not stay so for ever: without
\* the operator resetting or deleting it, it leaves the status syncing.
C13_SyncingNotPermanent ==
  \A i \in QueueIds :
    [](StatusOf(queued_sales, i) = "syncing" => <>(StatusOf(queued_sales, i) # "syncing"))

\* remaining_quantity of the batch id in tbl, 0 when it has been pruned
RemainingIn(tbl, id) ==
  IF \E b \in tbl : b.id = id THEN RowById(tbl, id).remaining_quantity ELSE 0
\* what the step took from the batches, at their bought_price
LedgerDropCost ==
  SumF([b \in product_batches |->
          (b.remaining_quantity - RemainingIn(product_batches', b.id)) * b.bought_price],
       product_batches)

\* C20: a sync consumption that succeeds reports as cogs the cost of the batch
\* quantities that very step took from the ledger, and this is the cogs of the
\* sales row the call inserts; a sync consumption of an entry whose quantities
\* exceed the ledger of that moment sets the entry failed and changes no batch,
\* no products.stock and no remote sale.
C20_SyncUsesCurrentLedger ==
  [][/\ (last'.op = "syncConsume" /\ last'.result = "ok") =>
          /\ sync'.cogs = LedgerDropCost
          /\ Covers(product_batches, queued_sale_items, last'.id)
     /\ (last'.op = "syncInsert" /\ Len(sales') = Len(sales) + 1) =>
          sales'[Len(sales')].cogs = sync.cogs
     /\ (last'.op = "syncConsume"
           /\ ~Covers(product_batches, queued_sale_items, last'.id)) =>
          /\ StatusOf(queued_sales', last'.id) = "failed"
          /\ UNCHANGED ledgerVars
          /\ UNCHANGED remoteSaleVars]_vars

\* two entries of one unit each were synced: the first cost the older lot's
\* price, the second the newer lot's
C20_Witness ==
  /\ Len(sales) = 2
  /\ sales[1].total = sales[2].total
  /\ sales[1].cogs = 5 /\ sales[2].cogs = 20
  /\ getProductStock(product_batches, "p1") = 0

----------------------------------------------------------------------------
(* Overlapping executions of processSaleBatches, SpecRace *)

\* the run has made its first read of the ledger and has not returned yet
InConsumption(p) == runs.of[p].pc \in {"read", "update", "stockRead", "stockWrite", "prune"}

\* C14: the consumption of one sale completes before the consumption of the
\* next sale begins: two executions started by handlers of one client (a
\* checkout and a sync, or two syncs) are never both between their first
\* ledger read and their return.
C14_OneConsumptionAtATime ==
  \A p, q \in Runs : p # q => ~(InConsumption(p) /\ InConsumption(q))

\* C15: every batch keeps 0 <= remaining_quantity <= quantity, whatever the
\* interleaving of creations, restocks, consume steps, price updates and prunes.
C15_RemainingWithinQuantity ==
  \A b \in product_batches :
    0 <= b.remaining_quantity /\ b.remaining_quantity <= b.quantity

\* two runs have both written their updates while the other was under way,
\* and a batch is left partly consumed
C15_Witness ==
  /\ \A p \in Runs : runs.of[p].pc = "prune"
  /\ \E b \in product_batches :
       0 < b.remaining_quantity /\ b.remaining_quantity < b.quantity

\* C16: no step raises the remaining_quantity of a batch that exists before
\* and after it (a restock inserts a new batch and leaves the others alone),
\* also when two consumptions interleave their reads and writes.
C16_RemainingNeverRaised ==
  [][\A b \in product_batches : \A c \in product_batches' :
       c.id = b.id => c.remaining_quantity <= b.remaining_quantity]_vars

----------------------------------------------------------------------------
(* The quote, under SpecQuote *)

\* C23: a call of quoteSaleBatches changes no batch, no products.stock, no queue
\* entry or item and no remote sale or sale item, whatever the items and the ledger.
C23_QuoteReadOnly ==
  [][last'.op = "quote" =>
       UNCHANGED <<product_batches, products, queued_sales, queued_sale_items, sales,
                   sale_items>>]_vars

\* a quote of two items that walked open batches
C23_Witness ==
  /\ last.op = "quote"
  /\ Len(last.items) = 2
  /\ last.revenue > 0
  /\ \E b \in product_batches : b.remaining_quantity > 0

----------------------------------------------------------------------------
(* The checkout handler, under SpecCheckout *)

\* C22: the quoting effect stores, per cart line, the FIFO quote of the line on
\* the ledger (nothing when the quote fails), and a checkout that queues the sale
\* writes one item per cart line with the cart quantity, the quoted unit price
\* (the product price where no unit is stored) and line_total = unit_price *
\* quantity, with total the sum of the line totals and items_count the sum of
\* the quantities.
C22_QueuedSnapshot ==
  [][/\ last'.op = "cart" =>
          \A p \in Products :
            fifoUnitPrices'[p] =
              IF online /\ cartItems'[p] > 0
              THEN quoteSaleBatches(product_batches,
                                    <<[productId |-> p, quantity |-> cartItems'[p]]>>)
              ELSE 0
     /\ (last'.op = "checkout" /\ last'.outcome = "queued") =>
          LET id == last'.qid
              q == SaleById(queued_sales', id)
              its == ItemsOf(queued_sale_items', id)
          IN /\ id \notin {x.id : x \in queued_sales}
             /\ q.status = "queued"
             /\ \A p \in Products :
                  Cardinality({i \in its : i.product_id = p})
                    = IF cartItems[p] > 0 THEN 1 ELSE 0
             /\ \A i \in its :
                  /\ i.quantity = cartItems[i.product_id]
                  /\ i.unit_price =
                       IF fifoUnitPrices[i.product_id] > 0
                       THEN Ratio(fifoUnitPrices[i.product_id], i.quantity)
                       ELSE Ratio(ProductPrice[i.product_id], 1)
                  /\ i.line_total * i.unit_price.den = i.unit_price.num * i.quantity
             /\ q.total = SumF([i \in its |-> i.line_total], its)
             /\ q.items_count = SumF([i \in its |-> i.quantity], its)]_vars

\* a sale of two lines was queued, one of them at a quoted unit price that is
\* not the product price
C22_Witness ==
  /\ last.op = "checkout" /\ last.outcome = "queued"
  /\ Cardinality(ItemsOf(queued_sale_items, last.qid)) = 2
  /\ \E i \in ItemsOf(queued_sale_items, last.qid) :
       i.unit_price # Ratio(ProductPrice[i.product_id], 1)

\* what a checkout step shows of the cash guard; exact: the change is compared
\* with cash_received - total itself, otherwise with its rounding to 2 decimals
CashChecked(exact) ==
  (last'.op = "checkout" /\ last'.outcome # "empty") =>
    LET l == last'
        cashOk == l.pay.cash > 0 /\ l.pay.cash >= Cents(l.total)
        ChangeOk(row) ==
          row.payment_method = "cash" =>
            /\ row.cash_received = l.pay.cash
            /\ IF exact THEN Cents(row.change) = l.pay.cash - Cents(l.total)
                        ELSE row.change = ToFixed2(l.pay.cash - Cents(l.total))
    IN /\ l.outcome = "cashRejected" <=> (l.pay.method = "cash" /\ ~cashOk)
       /\ l.outcome = "cashRejected" => (NothingChanged /\ UNCHANGED products)
       /\ \A row \in queued_sales' \ queued_sales : ChangeOk(row)
       /\ Len(sales') > Len(sales) => ChangeOk(sales'[Len(sales')])

\* C29 as stated: the recorded change is cash_received minus total.
C29_AsStated == [][CashChecked(TRUE)]_vars

\* C29: a cash checkout goes past the guard exactly when cash_received is
\* positive and not less than the total; a checkout the guard stops changes no
\* batch, no products.stock, no queue entry, no remote sale and not the cart; a
\* row written by a cash checkout records as change cash_received minus total
\* rounded to 2 decimals.
C29_CashGuard == [][CashChecked(FALSE)]_vars

\* a cash sale was queued and another cash checkout was stopped by the guard
C29_Witness ==
  /\ last.op = "checkout" /\ last.outcome = "cashRejected"
  /\ \E q \in queued_sales : q.payment_method = "cash" /\ q.change > 0

\* C30: an online checkout none of whose remote calls fails lowers, for every
\* product, the sum of the batches' remaining quantities and products.stock by
\* the cart quantity, and inserts one sales row, whose cogs is the cost of the
\* quantities taken from the batches, and one sale item per cart line.  On the
\* example ledger 2 units of p1 give cogs 10, total 30 and leave 8 in the batch.
C30_OnlineCheckout ==
  [][(last'.op = "checkout" /\ last'.outcome = "completed" /\ last'.insert = "ok"
        /\ faults' = faults) =>
       LET new == ItemsOf(sale_items', last'.saleId)
           example == /\ product_batches = EndToEndLedger
                      /\ cartItems = [EmptyCart EXCEPT !["p1"] = 2]
       IN /\ \A p \in Products :
               /\ getProductStock(product_batches', p)
                    = getProductStock(product_batches, p) - cartItems[p]
               /\ products'[p].stock = products[p].stock - cartItems[p]
               /\ Cardinality({i \in new : i.product_id = p})
                    = IF cartItems[p] > 0 THEN 1 ELSE 0
          /\ Len(sales') = Len(sales) + 1
          /\ last'.saleId = Len(sales')
          /\ sales'[Len(sales')].cogs = LedgerDropCost
          /\ sale_items' = sale_items \cup new
          /\ ItemsOf(sale_items, last'.saleId) = {}
          /\ \A i \in new : i.quantity = cartItems[i.product_id]
          /\ example =>
               /\ sales'[Len(sales')].cogs = 10
               /\ sales'[Len(sales')].total = 30
               /\ RowById(product_batches', 1).remaining_quantity = 8
               /\ products'["p1"].stock = products["p1"].stock - 2]_vars

\* the example: 2 units of p1 were checked out from the batch of 10
C30_Witness ==
  /\ last.op = "checkout" /\ last.outcome = "completed" /\ last.insert = "ok"
  /\ faults = 0
  /\ Len(sales) = 1 /\ sales[1].cogs = 10 /\ sales[1].total = 30
  /\ Cardinality(sale_items) = 1
  /\ \E b \in product_batches : b.id = 1 /\ b.quantity = 10 /\ b.remaining_quantity = 8

----------------------------------------------------------------------------
(* What sync commits, under SpecQueue *)

\* the charged values of an item row, of the queue or of sale_items
Charged(it) ==
  [product_id |-> it.product_id, unit_price |-> it.unit_price, quantity |-> it.quantity,
   line_total |-> it.line_total]

\* C21: no step changes the total, payment method, cash, change or the items of
\* an entry of the queue, and the sales row a sync inserts carries the entry's
\* total, payment method, cash_received and change, its sale items the entry's
\* unit_price, quantity and line_total item by item, whatever the revenue of
\* the fresh consumption.
C21_SyncKeepsSnapshot ==
  [][/\ \A q \in queued_sales : \A r \in queued_sales' :
          r.id = q.id =>
            /\ r.total = q.total /\ r.payment_method = q.payment_method
            /\ r.cash_received = q.cash_received /\ r.change = q.change
            /\ ItemsOf(queued_sale_items', q.id) = ItemsOf(queued_sale_items, q.id)
     /\ (last'.op = "syncInsert" /\ Len(sales') > Len(sales)) =>
          LET e == SaleById(queued_sales, last'.id)
              row == sales'[Len(sales')]
              its == ItemsOf(queued_sale_items, last'.id)
              new == ItemsOf(sale_items', Len(sales'))
          IN /\ Len(sales') = Len(sales) + 1
             /\ row.total = e.total
             /\ row.payment_method = e.payment_method
             /\ row.cash_received = e.cash_received
             /\ row.change = e.change
             /\ last'.result = "ok" =>
                  /\ Cardinality(new) = Cardinality(its)
                  /\ {Charged(i) : i \in new} = {Charged(i) : i \in its}]_vars

\* a cash entry was committed with its snapshot of 15 although the fresh
\* consumption met the lot selling at 25
C21_Witness ==
  /\ last.op = "syncInsert" /\ last.result = "ok"
  /\ sales[Len(sales)].payment_method = "cash"
  /\ sales[Len(sales)].change > 0
  /\ Len(sync.details) = 1
  /\ sync.details[1].revenue # sales[Len(sales)].total
  /\ \E i \in ItemsOf(sale_items, Len(sales)) : i.line_total # sync.details[1].revenue

\* C25: an entry takes the status done only in the step that leaves the sync
\* call about to delete it, and when a sync call returns no entry of the queue
\* has the status done.
C25_DoneNotRetained ==
  [][/\ \A r \in queued_sales' :
          (r.status = "done" /\ StatusOf(queued_sales, r.id) # "done") =>
            /\ sync'.pc = "delete"
            /\ sync'.rows[sync'.cur].sale.id = r.id
     /\ last'.op = "syncReturn" => \A r \in queued_sales' : r.status # "done"]_vars

\* the entries countPending counts
Pending(qs) == {q \in qs : q.status \in {"queued", "syncing"}}
FigureSet == {"pendingTimer", "syncReturn", "resetQueued", "deleteQueued", "reload"}

\* C28: getQueuedCount is the number of entries of status queued or syncing, and
\* every step that sets the 'Pending sync' figure of the Admin page sets it to
\* that number.
C28_PendingCount ==
  [][/\ getQueuedCount(queued_sales) = Cardinality(Pending(queued_sales))
     /\ (last'.op \in FigureSet \/ pendingSync' # pendingSync) =>
          pendingSync' = Cardinality(Pending(queued_sales'))]_vars

----------------------------------------------------------------------------
(* The queue store, under SpecStore *)

InQueue(qs, id) == \E q \in qs : q.id = id

\* C26: every queued sale item has its parent sale in the queue, whatever the
\* order of the saveQueuedSale, setSaleStatus and deleteQueuedSale calls (those
\* of the sync driver included), and a deleteQueuedSale(id) leaves neither the
\* sale id nor an item of it.
C26_NoOrphanItems ==
  /\ \A i \in queued_sale_items : InQueue(queued_sales, i.sale_id)
  /\ last.op = "delete" =>
       /\ ~InQueue(queued_sales, last.id)
       /\ ItemsOf(queued_sale_items, last.id) = {}

\* a sale of two lines was deleted while another sale is kept with its items
C26_Witness ==
  /\ last.op = "delete" /\ last.present
  /\ Len(hist) = Cardinality(QueueIds)
  /\ \E q \in queued_sales : Cardinality(ItemsOf(queued_sale_items, q.id)) = 2

\* C27: deleteQueuedSale of an id that is not in the queue completes without an
\* error and leaves the queue and its items as they are; deleting an id twice
\* gives what deleting it once gives.
C27_DeleteIdempotent ==
  [][last'.op = "delete" =>
       /\ last'.error = NoError
       /\ ~last'.present => UNCHANGED <<queued_sales, queued_sale_items>>
       /\ deleteQueuedSaleRow(queued_sales', last'.id) = queued_sales'
       /\ deleteQueuedSaleItems(queued_sale_items', last'.id) = queued_sale_items'
       /\ \A q \in queued_sales : q.id # last'.id => q \in queued_sales'
       /\ \A i \in queued_sale_items : i.sale_id # last'.id => i \in queued_sale_items']_vars

\* an id that was saved and deleted is deleted again, another sale being queued
C27_Witness ==
  /\ last.op = "delete" /\ ~last.present
  /\ last.id <= Len(hist)
  /\ queued_sales # {} /\ queued_sale_items # {}

----------------------------------------------------------------------------
(* The prune, under SpecRace *)

RECURSIVE WriteAll(_, _)
\* the table after the updates a consume still has to write (lines 114-120)
WriteAll(tbl, us) ==
  IF us = <<>> THEN tbl
  ELSE WriteAll(UpdateRemaining(tbl, Head(us).id, Head(us).remaining_quantity), Tail(us))

\* what every later consume, quote and stock sum reads of a table: its batches
\* with remaining_quantity > 0
OpenRows(tbl) == {b \in tbl : b.remaining_quantity > 0}

\* C31: the prune of processSaleBatches deletes exactly the product's batches
\* with remaining_quantity = 0, and running it changes nothing a later consume,
\* quote or stock sum reads, also when another execution is between the read
\* and the writes of its consume: once that execution has written its updates,
\* the open batches are those it leaves when the prune is skipped.
C31_PruneIsNeutral ==
  [][last'.op = "prune" =>
       LET p == last'.run
           pid == runs.of[p].productId
       IN /\ product_batches' =
               product_batches \ {b \in product_batches :
                                    b.product_id = pid /\ b.remaining_quantity = 0}
          /\ OpenRows(product_batches') = OpenRows(product_batches)
          /\ \A q \in Runs \ {p} :
               OpenRows(WriteAll(product_batches', runs.of[q].updates))
                 = OpenRows(WriteAll(product_batches, runs.of[q].updates))]_vars

----------------------------------------------------------------------------
(* The cached stock under every ledger operation, SpecAdmin *)

\* C32: products.stock equals the sum of the remaining quantities of the
\* product's batches after every ledger operation whose remote calls all
\* succeeded: a sale, a restock, the deletion of a batch and the creation of
\* an initial (backfill) batch.
C32_StockIsLedgerSum ==
  faults = 0 => Consistent(product_batches, products)

\* C33: an Add Stock that goes through creates one batch of the product whose
\* remaining_quantity equals its quantity, the quantity typed; with a quantity
\* <= 0 or a bought price < 0 it fails on the checks of the fields: no batch
\* is created or changed and no product stock changes.
C33_CreateBatchValidated ==
  [][last'.op = "addStock" =>
       /\ (last'.quantity <= 0 \/ last'.bought_price < 0) =>
            /\ last'.error = "validation"
            /\ product_batches' = product_batches
            /\ products' = products
       /\ last'.error = NoError =>
            \E b \in product_batches' :
              /\ b.id = last'.id /\ b.id \notin {x.id : x \in product_batches}
              /\ b.product_id = last'.pid
              /\ b.quantity = last'.quantity
              /\ b.remaining_quantity = b.quantity
              /\ b.bought_price = last'.bought_price
              /\ \A c \in product_batches' : c.id # b.id => c \in product_batches]_vars

\* a batch was created by an Add Stock and a later Add Stock with a quantity
\* <= 0 was refused
C33_Witness ==
  /\ last.op = "addStock" /\ last.quantity <= 0 /\ last.error = "validation"
  /\ \E b \in product_batches :
       b.bought_price = 20 /\ b.quantity = MaxQty /\ b.remaining_quantity = MaxQty

----------------------------------------------------------------------------
(* Two consumers of one batch, under SpecRace *)

\* the consume of the run has returned without error: its updates are written
Consumed(p) == runs.of[p].pc \in {"stockRead", "stockWrite", "prune"}

\* the remaining_quantity the run read of batch id (Null: it did not read it)
ReadOf(p, id) ==
  LET r == runs.of[p]
  IN IF \E i \in 1..Len(r.batches) : r.batches[i].id = id
     THEN r.batches[CHOOSE i \in 1..Len(r.batches) : r.batches[i].id = id].remaining_quantity
     ELSE Null

\* what the run took from batch id: the value read minus the value it wrote
TakenBy(p, id) ==
  LET r == runs.of[p]
  IN IF \E i \in 1..Len(r.planned) : r.planned[i].id = id
     THEN ReadOf(p, id)
            - r.planned[CHOOSE i \in 1..Len(r.planned) : r.planned[i].id = id].remaining_quantity
     ELSE 0

\* both runs read the same remaining_quantity of the batch, took from it and
\* have returned from their consume without error
Oversold(b) ==
  \A p \in Runs :
    /\ Consumed(p)
    /\ TakenBy(p, b.id) > 0
    /\ ReadOf(p, b.id) = ReadOf(1, b.id)

\* C34: two executions that consume from one batch can both read the same
\* remaining_quantity and both write a decremented value; both consumes then
\* report success and the batch holds what one of them wrote, so the ledger
\* has decreased by less than the sum of the quantities they consumed.
C34_ConcurrentOversell ==
  \A b \in product_batches :
    Oversold(b) =>
      /\ \E p \in Runs : b.remaining_quantity = ReadOf(p, b.id) - TakenBy(p, b.id)
      /\ ReadOf(1, b.id) - b.remaining_quantity < TakenBy(1, b.id) + TakenBy(2, b.id)

\* both runs read remaining 2 of the batch and took 1 each; both reported
\* success and the batch holds 1: two units sold, one unit off the ledger
C34_Witness ==
  \E b \in product_batches :
    /\ Oversold(b)
    /\ ReadOf(1, b.id) = 2 /\ TakenBy(1, b.id) = 1 /\ TakenBy(2, b.id) = 1
    /\ b.remaining_quantity = 1

----------------------------------------------------------------------------
(* Progress of the queue, under SpecQueueLive *)

\* the entry is in the queue, waiting for a sync cycle to take it
Waiting(i) == StatusOf(queued_sales, i) \in {"queued", "failed"}

\* the entry has a remote sales row and is no longer in the queue
Settled(i) == ~InQueue(queued_sales, i) /\ hist[i].rows > 0

\* a cycle over the whole queue is started (Sync now: no target id)
CycleStarted == last.op = "syncBegin" /\ last.id = 0

\* C35: an entry of status queued or failed is eventually committed remotely
\* and removed from the queue, provided cycles over the whole queue keep being
\* started and run to their end (the fairness of SpecQueueLive), the operator
\* does not delete the entry, and from some point on the client is online, the
\* ledger holds the quantities of the entry and no remote call fails (the
\* failures of a behaviour are finitely many).
C35_QueuedEventuallySynced ==
  \A i \in QueueIds :
    (/\ []<>CycleStarted
     /\ [](last.op # "deleteQueued")
     /\ <>[](online /\ Covers(product_batches, queued_sale_items, i)))
      => [](Waiting(i) => <>Settled(i))

\* the same progress, for the behaviours in which the page is never reloaded or
\* closed while a sync call is awaiting
ProgressWithoutReload ==
  \A i \in QueueIds :
    (/\ []<>CycleStarted
     /\ [](last.op # "deleteQueued")
     /\ [](last.op # "reload")
     /\ <>[](online /\ Covers(product_batches, queued_sale_items, i)))
      => [](Waiting(i) => <>Settled(i))

----------------------------------------------------------------------------
(* Overlapping sync calls, under SpecOverlap *)

\* C36: when two syncQueuedSales calls of one client overlap and no remote
\* call fails, every queue entry is consumed against the ledger at most once
\* and gets at most one remote sales row: the second call does not process an
\* entry the first has marked syncing.
C36_OverlapSyncsOnce ==
  faults = 0 => \A i \in 1..Len(hist) : hist[i].debits <= 1 /\ hist[i].rows <= 1

----------------------------------------------------------------------------
(* The status of a queue entry *)

\* the changes of status of a stored entry: taken by a sync call, failed,
\* committed, reset
StatusSteps ==
  {<<"queued", "syncing">>, <<"failed", "syncing">>, <<"syncing", "failed">>,
   <<"syncing", "done">>, <<"syncing", "queued">>}

\* C37: the status of a queue entry changes only along queued -> syncing,
\* failed -> syncing, syncing -> failed, syncing -> done and syncing -> queued;
\* an entry may be deleted, and one that has reached done is only deleted: it
\* never goes back to failed, queued or syncing.
C37_StatusTransitions ==
  [][\A i \in QueueIds :
       LET from == StatusOf(queued_sales, i)
           to == StatusOf(queued_sales', i)
       IN (from # to /\ from # "absent") => (to = "absent" \/ <<from, to>> \in StatusSteps)]_vars

----------------------------------------------------------------------------
(* setSaleStatus and the deletion of an entry, under SpecStatus *)

\* C38: setSaleStatus never creates or resurrects a queue entry: for an id
\* that is not in the queue it changes nothing, and an entry that was deleted
\* between its read and its write does not reappear; only saveQueuedSale adds
\* an entry to the queue.
C38_StatusNeverResurrects ==
  [][/\ (last'.op = "statusGet" /\ ~last'.present) =>
          UNCHANGED <<queued_sales, queued_sale_items>>
     /\ \A i \in QueueIds :
          (~InQueue(queued_sales, i) /\ InQueue(queued_sales', i)) => last'.op = "save"]_vars

----------------------------------------------------------------------------
(* processSaleBatches as a whole, under SpecQuote *)

\* the quantity of product p over the items of a list
RECURSIVE Ordered(_, _)
Ordered(items, p) ==
  IF items = <<>> THEN 0
  ELSE (IF Head(items).productId = p THEN Head(items).quantity ELSE 0)
         + Ordered(Tail(items), p)

AllOrNothingOfCartLists ==
  [][(last'.op = "consumeMany"
        /\ \A i, j \in 1..Len(last'.items) :
             last'.items[i].productId = last'.items[j].productId => i = j) =>
       IF last'.ok
       THEN \A p \in Products :
              /\ getProductStock(product_batches', p)
                   = getProductStock(product_batches, p) - Ordered(last'.items, p)
              /\ products'[p].stock = products[p].stock - Ordered(last'.items, p)
       ELSE UNCHANGED <<product_batches, products>>]_vars

=============================================================================
